---- MODULE Spec2Model ----
(***************************************************************************)
(* Model of tools/suggest-grid.mjs: the grid suggestion tool that assigns  *)
(* breakout sessions to rooms and slots.  The state machine follows        *)
(* main(): retrieval and shuffle, settings and normalization, the          *)
(* track-by-track orchestrator loop with its relaxation ladder, the report *)
(* and the apply phase.                                                    *)
(***************************************************************************)
EXTENDS Integers, Sequences, FiniteSets, TLC

VARIABLES
  project,      \* what fetchProject returned: rooms, slots, sessions
  argv,         \* process.argv[2..5], each word a sequence of characters
  args,         \* the parameters of main: preserve, except, apply, seed
  pc,           \* position in main
  sessions,     \* the `sessions` array: session numbers, in array order
  sess,         \* per session number: the mutable fields of the session object
  shuffled,     \* the order logged right after shuffle (line 98)
  seed,         \* the local `seed` after line 112
  cli,          \* the `cli` settings object
  preserve,     \* the local `preserve` after normalization
  tracks,       \* the `tracks` Set, in insertion order
  roomSessions, \* room.sessions for each room position
  slotSessions, \* slot.sessions for each slot position
  ti,           \* number of tracks visited so far by the orchestrator loop
  trackRoom,    \* the home room of the track being visited (0: null)
  cur,          \* the session being processed (0: none)
  constraints,  \* the `constraints` object of the session being processed
  log,          \* the console.warn lines about sessions, in order
  trace,        \* per session: times pulled, track and home room in effect
                \* when pulled, searches made
  report,       \* what the report prints
  writes        \* calls of assignSessionsToSlotAndRoom, in order, with outcome

vars == <<project, argv, args, pc, sessions, sess, shuffled, seed, cli, preserve,
          tracks, roomSessions, slotSessions, ti, trackRoom, cur, constraints,
          log, trace, report, writes>>

(***************************************************************************)
(* Bounds of the model.                                                    *)
(***************************************************************************)
NumSessions == 3
NumRooms == 2
NumSlots == 2
Grain == 3

(***************************************************************************)
(* Values.                                                                 *)
(***************************************************************************)
Undefined == "undefined"
NoSeed == 0 - 1
DefaultCapacity == 30

Range(s) == {s[i] : i \in 1..Len(s)}

RECURSIVE Pow(_, _)
Pow(b, e) == IF e <= 0 THEN 1 ELSE b * Pow(b, e - 1)

\* Array.prototype.find over the results of its test, in array order: the
\* first position whose element passes, 0 when there is none.
FirstIndex(passes) ==
  IF \E i \in 1..Len(passes) : passes[i]
  THEN CHOOSE i \in 1..Len(passes) : passes[i] /\ \A j \in 1..(i - 1) : ~passes[j]
  ELSE 0

\* Array.prototype.sort with a comparator (a, b) => key(a) - key(b), keys[i]
\* being the key of s[i]: a stable sort by ascending key.
SortBy(s, keys) ==
  LET n == Len(s)
      rank(i) == 1 + Cardinality({j \in 1..n :
                        \/ keys[j] < keys[i]
                        \/ (keys[j] = keys[i] /\ j < i)})
  IN [p \in 1..n |-> s[CHOOSE i \in 1..n : rank(i) = p]]

\* The session record of the project with a given number.
P(n) == project.sessions[CHOOSE i \in 1..Len(project.sessions) :
                            project.sessions[i].number = n]

Numbers == {project.sessions[i].number : i \in 1..Len(project.sessions)}


(***************************************************************************)
(* shuffle (lines 53-59).  seedrandom(seed) is a generator whose outputs   *)
(* depend on the seed only: a seed stands for the stream it generates, its *)
(* k-th output being the k-th digit of the seed in base Grain, over Grain. *)
(***************************************************************************)
Seeds == 0..(Pow(Grain, NumSessions - 1) - 1)

\* Numerator of the k-th output of randomGenerator.quick(), over Grain.
Quick(s, k) == (s \div Pow(Grain, k - 1)) % Grain

\* array[i] = array[j] alone: the element at i is lost, the one at j doubled.
SwapCopies(array, i, j) ==
  [p \in 1..Len(array) |-> IF p = i + 1 THEN array[j + 1] ELSE array[p]]

\* [array[i], array[j]] = [array[j], array[i]], on 0-based positions.
Swap(array, i, j) ==
  [p \in 1..Len(array) |->
     IF p = i + 1 THEN array[j + 1] ELSE IF p = j + 1 THEN array[i + 1] ELSE array[p]]

\* The loop body for position i, drawing the k-th output, then the rest.
RECURSIVE ShuffleFrom(_, _, _, _)
ShuffleFrom(array, s, i, k) ==
  IF i > 0
  THEN LET j == (Quick(s, k) * (i + 1)) \div Grain
       IN ShuffleFrom(Swap(array, i, j), s, i - 1, k + 1)
  ELSE array

shuffle(array, s) == ShuffleFrom(array, s, Len(array) - 1, 1)

(***************************************************************************)
(* The command line (lines 595-628).  A word is the sequence of its         *)
(* characters; a word that is absent or empty is the empty sequence.       *)
(***************************************************************************)
Digits == {"0", "1", "2", "3", "4", "5", "6", "7", "8", "9"}

\* The word has the given characters from position i on.
HasAt(w, i, chars) ==
  /\ i + Len(chars) - 1 <= Len(w)
  /\ \A k \in 1..Len(chars) : w[i + k - 1] = chars[k]

\* The whole of s matches \d+(,\d+)* .
IsNumberList(s) ==
  /\ Len(s) > 0
  /\ \A i \in 1..Len(s) : s[i] \in Digits \cup {","}
  /\ s[1] # "," /\ s[Len(s)] # ","
  /\ \A i \in 1..(Len(s) - 1) : ~(s[i] = "," /\ s[i + 1] = ",")

\* Some end of the word matches \d+(,\d+)*$ .
EndsWithNumberList(w) == \E i \in 1..Len(w) : IsNumberList(SubSeq(w, i, Len(w)))

\* Line 598: /^all|none|\d+(,\d+)*$/, whose alternatives are ^all, none and
\* \d+(,\d+)*$ .
MatchesPreserve(w) ==
  \/ HasAt(w, 1, <<"a", "l", "l">>)
  \/ \E i \in 1..Len(w) : HasAt(w, i, <<"n", "o", "n", "e">>)
  \/ EndsWithNumberList(w)

\* Line 616: /^none|\d+(,\d+)*$/ .
MatchesExcept(w) ==
  \/ HasAt(w, 1, <<"n", "o", "n", "e">>)
  \/ EndsWithNumberList(w)

\* Lines 596-611.  A string has no method map: line 609 throws.
ReadPreserve(w) ==
  IF Len(w) = 0 THEN [outcome |-> "ok", value |-> [kind |-> "undefined", ids |-> <<>>]]
  ELSE IF ~MatchesPreserve(w) THEN [outcome |-> "exit", value |-> <<>>]
  ELSE IF w = <<"a", "l", "l">>
  THEN [outcome |-> "ok", value |-> [kind |-> "all", ids |-> <<>>]]
  ELSE IF w = <<"n", "o", "n", "e">>
  THEN [outcome |-> "ok", value |-> [kind |-> "list", ids |-> <<>>]]
  ELSE [outcome |-> "threw", value |-> <<>>]

\* Lines 614-623.  Line 622 throws likewise.
ReadExcept(w) ==
  IF Len(w) = 0 THEN [outcome |-> "ok", value |-> [kind |-> "undefined", ids |-> <<>>]]
  ELSE IF ~MatchesExcept(w) THEN [outcome |-> "exit", value |-> <<>>]
  ELSE IF w = <<"n", "o", "n", "e">>
  THEN [outcome |-> "ok", value |-> [kind |-> "undefined", ids |-> <<>>]]
  ELSE [outcome |-> "threw", value |-> <<>>]

\* Lines 595-628: the module's own code, up to the call of main.
ParseArgs ==
  /\ pc = "cli"
  /\ LET p == ReadPreserve(argv.preserve)
         e == ReadExcept(argv.except)
     IN IF p.outcome # "ok"
        THEN pc' = p.outcome /\ UNCHANGED <<args, seed>>
        ELSE IF e.outcome # "ok"
        THEN pc' = e.outcome /\ UNCHANGED <<args, seed>>
        ELSE /\ args' = [preserve |-> p.value, except |-> e.value,
                         apply |-> argv.apply = <<"a", "p", "p", "l", "y">>,
                         seed |-> argv.seed]
             /\ seed' = argv.seed
             /\ pc' = "start"
  /\ UNCHANGED <<project, argv, sessions, sess, shuffled, cli, preserve, tracks,
                 roomSessions, slotSessions, ti, trackRoom, cur, constraints,
                 log, trace, report, writes>>

(***************************************************************************)
(* Retrieval (lines 77-107): validation pre-filter, sort by number,        *)
(* shuffle, default capacity.                                              *)
(***************************************************************************)
\* The filter without its test of the severity.
BlockingErrorsAnySeverity(errors) ==
  SelectSeq(errors, LAMBDA err : err.type # "chair conflict"
                              /\ err.type # "scheduling")

\* The errors that exclude a session (lines 85-88).
BlockingErrors(errors) ==
  SelectSeq(errors, LAMBDA err : err.severity = "error"
                              /\ err.type # "chair conflict"
                              /\ err.type # "scheduling")

\* Lines 83-95: the sessions without blocking errors, sorted by number.
ValidSessions ==
  LET kept == SelectSeq(project.sessions,
                     LAMBDA s : Len(BlockingErrors(s.errors)) = 0)
      numbers == [i \in 1..Len(kept) |-> kept[i].number]
  IN SortBy(numbers, numbers)

\* The sessions as retrieved, an unknown capacity preference left at 0.
NormalizeCapacityKeeps(list, ss) == ss

\* Lines 103-107.
NormalizeCapacity(list, ss) ==
  [n \in DOMAIN ss |->
     IF n \in Range(list) /\ ss[n].capacity = 0
     THEN [ss[n] EXCEPT !.capacity = DefaultCapacity]
     ELSE ss[n]]

Retrieve ==
  /\ pc = "start"
  /\ \E stream \in Seeds :
       \* seedrandom(undefined) seeds itself from entropy: any stream.
       /\ args.seed # NoSeed => stream = args.seed
       /\ sessions' = shuffle(ValidSessions, stream)
  /\ shuffled' = sessions'
  /\ sess' = NormalizeCapacity(sessions', sess)
  /\ pc' = "retrieved"
  /\ UNCHANGED <<project, argv, args, seed, cli, preserve, tracks, roomSessions,
                 slotSessions, ti, trackRoom, cur, constraints, log, trace,
                 report, writes>>

(***************************************************************************)
(* Settings and normalization (lines 109-175).                             *)
(***************************************************************************)
\* Lines 115-136: the settings saved as CLI parameters.
CliSettings(sd) ==
  [preserve |-> IF args.preserve.kind = "all" THEN [kind |-> "all", ids |-> <<>>]
                ELSE IF Len(args.preserve.ids) = 0 THEN [kind |-> "none", ids |-> <<>>]
                ELSE [kind |-> "list", ids |-> args.preserve.ids],
   except |-> IF args.except.kind = "undefined" THEN [kind |-> "none", ids |-> <<>>]
              ELSE IF Len(args.except.ids) > 0 THEN [kind |-> "list", ids |-> args.except.ids]
              ELSE [kind |-> "none", ids |-> <<>>],
   seed |-> sd,
   apply |-> args.apply]

\* Reading the property `number` of a number yields undefined, which is no
\* session number (line 142 reads s.number on the elements of preserve).
NoNumber == 0 - 1
NumberOfPrimitive(s) == NoNumber

\* Lines 138-146: the list of session numbers to preserve.
PreserveList(list, ss) ==
  LET all == SelectSeq(list, LAMBDA n : ss[n].slot # Undefined \/ ss[n].room # Undefined)
      p1 == IF args.preserve.kind = "all" THEN all ELSE args.preserve.ids
      p2 == IF args.except.kind # "undefined"
            THEN SelectSeq(p1, LAMBDA s : NumberOfPrimitive(s) \notin Range(args.except.ids))
            ELSE p1
  IN p2

\* The clearing loop without its test of the preserve list.
ClearEverySession(list, ss, keep) ==
  [n \in DOMAIN ss |->
     IF n \in Range(list)
     THEN [ss[n] EXCEPT !.slot = Undefined, !.room = Undefined]
     ELSE ss[n]]

\* Lines 147-152.
ClearUnpreserved(list, ss, keep) ==
  [n \in DOMAIN ss |->
     IF n \in Range(list) /\ n \notin Range(keep)
     THEN [ss[n] EXCEPT !.slot = Undefined, !.room = Undefined]
     ELSE ss[n]]

\* Lines 157-163: the tracks of a session, from its labels.
SessionTracks(n) ==
  LET labelled == SelectSeq(P(n).labels, LAMBDA label : label.prefix = "track: ")
  IN [i \in 1..Len(labelled) |-> labelled[i].rest]

\* Set.prototype.add on a Set kept in insertion order.
SetAdd(set, x) == IF x \in Range(set) THEN set ELSE Append(set, x)

RECURSIVE AddAll(_, _)
AddAll(set, xs) == IF Len(xs) = 0 THEN set ELSE AddAll(SetAdd(set, Head(xs)), Tail(xs))

\* The list of tracks with '' added before the tracks of the sessions.
RECURSIVE CollectTracksMainFirst(_, _)
CollectTracksMainFirst(set, list) ==
  IF Len(list) = 0 THEN SetAdd(set, "")
  ELSE CollectTracksMainFirst(
         AddAll(SetAdd(set, ""), SessionTracks(Head(list))), Tail(list))

\* Lines 155-165: every track of every session in array order, then ''.
RECURSIVE CollectTracks(_, _)
CollectTracks(set, list) ==
  IF Len(list) = 0 THEN SetAdd(set, "")
  ELSE CollectTracks(AddAll(set, SessionTracks(Head(list))), Tail(list))

\* Lines 168-175: the views by slot and by room.
SlotView(list, ss) ==
  [k \in 1..Len(project.slots) |->
     SelectSeq(list, LAMBDA n : ss[n].slot = project.slots[k].name)]

RoomView(list, ss) ==
  [r \in 1..Len(project.rooms) |->
     SelectSeq(list, LAMBDA n : ss[n].room = project.rooms[r].name)]

Configure ==
  /\ pc = "retrieved"
  /\ \E made \in Seeds :
       \* seed = seed ?? makeseed()
       /\ args.seed # NoSeed => made = args.seed
       /\ seed' = made
  /\ IF args.preserve.kind = "undefined"
     THEN \* preserve.length on undefined (line 119)
          /\ pc' = "threw"
          /\ UNCHANGED <<cli, preserve, sess, tracks, roomSessions, slotSessions>>
     ELSE LET keep == PreserveList(sessions, sess)
              cleared == ClearUnpreserved(sessions, sess, keep)
              tracked == [n \in DOMAIN cleared |->
                            IF n \in Range(sessions)
                            THEN [cleared[n] EXCEPT !.tracks = SessionTracks(n)]
                            ELSE cleared[n]]
          IN /\ cli' = CliSettings(seed')
             /\ preserve' = keep
             /\ sess' = tracked
             /\ tracks' = CollectTracks(<<>>, sessions)
             /\ slotSessions' = SlotView(sessions, tracked)
             /\ roomSessions' = RoomView(sessions, tracked)
             /\ pc' = "tracks"
  /\ UNCHANGED <<project, argv, args, sessions, shuffled, ti, trackRoom, cur,
                 constraints, log, trace, report, writes>>

(***************************************************************************)
(* The orchestrator's helpers (lines 177-223).                             *)
(***************************************************************************)
\* The selection with the test of the processed flag left out.
selectNextSessionAgain(track, ss) ==
  LET i == FirstIndex([j \in 1..Len(sessions) |->
                         track = "" \/ track \in Range(ss[sessions[j]].tracks)])
  IN IF i = 0 THEN 0 ELSE sessions[i]

\* Lines 179-180: the next session to process for a track, 0 when none.
selectNextSession(track, ss) ==
  LET i == FirstIndex([j \in 1..Len(sessions) |->
                         /\ ~ss[sessions[j]].processed
                         /\ (track = "" \/ track \in Range(ss[sessions[j]].tracks))])
  IN IF i = 0 THEN 0 ELSE sessions[i]

\* rooms.find(room => room.name === name): a room position, 0 when none.
RoomByName(name) ==
  FirstIndex([r \in 1..Len(project.rooms) |-> project.rooms[r].name = name])

\* slots.find(slot => slot.name === name): a slot position, 0 when none.
SlotByName(name) ==
  FirstIndex([k \in 1..Len(project.slots) |-> project.slots[k].name = name])

\* Session objects carry `tracks`; line 201 reads `track`, which none has.
TrackField(n) == Undefined

\* Line 200-202: sessions of the room counted as taking a slot.
slotsTaken(r, track) ==
  Len(SelectSeq(roomSessions[r], LAMBDA curr : TrackField(curr) # track))

\* Line 192.
TrackSessions(track) == SelectSeq(sessions, LAMBDA n : track \in Range(sess[n].tracks))

\* Lines 195-198: the capacity of the session that requires the largest room.
LargestCapacity(track) ==
  LET ts == TrackSessions(track)
  IN CHOOSE c \in {sess[n].capacity : n \in Range(ts)} :
       \A n \in Range(ts) : sess[n].capacity <= c

\* Lines 204-206.
meetCapacityRoom(r, track) == project.rooms[r].capacity >= LargestCapacity(track)
meetSameRoom(r, track) ==
  slotsTaken(r, track) + Len(TrackSessions(track)) <= Len(project.slots)
meetAll(r, track) == meetCapacityRoom(r, track) /\ meetSameRoom(r, track)

\* Array.prototype.sort leaves undefined elements (0 here) last, unsorted.
SortRooms(rs, track) ==
  LET defined == SelectSeq(rs, LAMBDA r : r # 0)
  IN SortBy(defined, [i \in 1..Len(defined) |-> slotsTaken(defined[i], track)])
       \o SelectSeq(rs, LAMBDA r : r = 0)

\* The rooms ranked by availability alone, requested or not.
AllRoomsByAvailability(track) ==
  LET ts == TrackSessions(track)
      withRoom == SelectSeq(ts, LAMBDA n : sess[n].room # Undefined)
      names == AddAll(<<>>, [i \in 1..Len(withRoom) |-> sess[withRoom[i]].room])
      requestedRooms == [i \in 1..Len(names) |-> RoomByName(names[i])]
      others == SelectSeq([r \in 1..Len(project.rooms) |-> r],
                       LAMBDA r : r \notin Range(requestedRooms))
  IN SortRooms(requestedRooms \o others, track)

\* Lines 208-216: requested rooms first, each group by availability.
AllRooms(track) ==
  LET ts == TrackSessions(track)
      withRoom == SelectSeq(ts, LAMBDA n : sess[n].room # Undefined)
      names == AddAll(<<>>, [i \in 1..Len(withRoom) |-> sess[withRoom[i]].room])
      requestedRooms == [i \in 1..Len(names) |-> RoomByName(names[i])]
      others == SelectSeq([r \in 1..Len(project.rooms) |-> r],
                       LAMBDA r : r \notin Range(requestedRooms))
  IN SortRooms(requestedRooms, track) \o SortRooms(others, track)

\* The choice with the room that fits the sessions of the track preferred to
\* the room that meets the capacity.
chooseTrackRoomFitFirst(track) ==
  IF track = "" THEN [threw |-> FALSE, room |-> 0]
  ELSE LET all == AllRooms(track)
           i1 == FirstIndex([j \in 1..Len(all) |-> all[j] = 0 \/ meetAll(all[j], track)])
           i2 == FirstIndex([j \in 1..Len(all) |->
                               all[j] = 0 \/ meetCapacityRoom(all[j], track)])
           i3 == FirstIndex([j \in 1..Len(all) |->
                               all[j] = 0 \/ meetSameRoom(all[j], track)])
           i == IF i1 # 0 THEN i1 ELSE IF i3 # 0 THEN i3 ELSE IF i2 # 0 THEN i2 ELSE 1
       IN IF Len(all) = 0 \/ all[i] = 0
          THEN [threw |-> TRUE, room |-> 0]
          ELSE [threw |-> FALSE, room |-> all[i]]

\* Lines 187-223.  [threw, room]: room is a room position, 0 for null.
chooseTrackRoom(track) ==
  IF track = "" THEN [threw |-> FALSE, room |-> 0]
  ELSE LET all == AllRooms(track)
           \* allRooms.find(test) stops at the first room that passes; an
           \* undefined entry (0) met before that throws
           i1 == FirstIndex([j \in 1..Len(all) |-> all[j] = 0 \/ meetAll(all[j], track)])
           i2 == FirstIndex([j \in 1..Len(all) |->
                               all[j] = 0 \/ meetCapacityRoom(all[j], track)])
           i3 == FirstIndex([j \in 1..Len(all) |->
                               all[j] = 0 \/ meetSameRoom(all[j], track)])
           i == IF i1 # 0 THEN i1 ELSE IF i2 # 0 THEN i2 ELSE IF i3 # 0 THEN i3 ELSE 1
       IN IF Len(all) = 0 \/ all[i] = 0
          THEN [threw |-> TRUE, room |-> 0]
          ELSE [threw |-> FALSE, room |-> all[i]]

(***************************************************************************)
(* setRoomAndSlot (lines 226-336).                                         *)
(***************************************************************************)
\* Lines 292-294.
SameChair(c1, c2) ==
  \/ (c1.login # "" /\ c1.login = c2.login)
  \/ (c1.name # "" /\ c1.name = c2.name)

\* Lines 291-295, for one other session s.
ChairConflict(s, n) ==
  \E i \in 1..Len(P(s).chairs) : \E j \in 1..Len(P(n).chairs) :
     SameChair(P(s).chairs[i], P(n).chairs[j])

\* The comparison of the first track of each session only.
TrackConflictFirstLabel(s, n) ==
  /\ Len(sess[s].tracks) > 0 /\ Len(sess[n].tracks) > 0
  /\ sess[s].tracks[1] = sess[n].tracks[1]

\* Lines 284-285, for one other session s: find returns the first track of s
\* that the session has too, and that string is the result of the test, so
\* that a first shared track named '' counts as no conflict.
TrackConflict(s, n) ==
  LET shared == SelectSeq(sess[s].tracks, LAMBDA t : t \in Range(sess[n].tracks))
  IN shared # <<>> /\ Head(shared) # ""

\* The check of the conflicts that the session being placed declares only.
SessionConflictDeclaredOnly(s, n) == s \in Range(P(n).conflicts)

\* Lines 302-304, for one other session s.
SessionConflict(s, n) ==
  \/ s \in Range(P(n).conflicts)
  \/ n \in Range(P(s).conflicts)

\* The duration check with the loose comparison whatever the mode.
DurationOkLooseOnly(n, k, c) ==
  c.meetDuration => project.slots[k].duration >= P(n).duration

\* Lines 311-316.
DurationOk(n, k, c) ==
  c.meetDuration =>
    ~ \/ (c.strictDuration /\ project.slots[k].duration # P(n).duration)
      \/ (~c.strictDuration /\ project.slots[k].duration < P(n).duration)

\* nonConflictingSlot with the chair check dropped together with the other
\* conflict checks.
nonConflictingSlotChairRelaxed(n, k, c) ==
  LET potentialConflicts ==
        SelectSeq(sessions, LAMBDA s : s # n /\ sess[s].slot = project.slots[k].name)
      others == Range(potentialConflicts)
  IN /\ ~((\E s \in others : TrackConflict(s, n)) /\ "track" \in Range(c.meetConflicts))
     /\ ~((\E s \in others : ChairConflict(s, n)) /\ Len(c.meetConflicts) > 0)
     /\ ~("session" \in Range(c.meetConflicts) /\ \E s \in others : SessionConflict(s, n))
     /\ DurationOk(n, k, c)

\* nonConflictingSlot with the other sessions taken from every slot.
nonConflictingSlotAnySlot(n, k, c) ==
  LET potentialConflicts ==
        SelectSeq(sessions, LAMBDA s : s # n /\ sess[s].slot # Undefined)
      others == Range(potentialConflicts)
  IN /\ ~((\E s \in others : TrackConflict(s, n)) /\ "track" \in Range(c.meetConflicts))
     /\ ~(\E s \in others : ChairConflict(s, n))
     /\ ~("session" \in Range(c.meetConflicts) /\ \E s \in others : SessionConflict(s, n))
     /\ DurationOk(n, k, c)

\* Lines 280-319.
nonConflictingSlot(n, k, c) ==
  LET potentialConflicts ==
        SelectSeq(sessions, LAMBDA s : s # n /\ sess[s].slot = project.slots[k].name)
      others == Range(potentialConflicts)
  IN /\ ~((\E s \in others : TrackConflict(s, n)) /\ "track" \in Range(c.meetConflicts))
     /\ ~(\E s \in others : ChairConflict(s, n))
     /\ ~("session" \in Range(c.meetConflicts) /\ \E s \in others : SessionConflict(s, n))
     /\ DurationOk(n, k, c)

\* The candidate rooms with the largest room first.
possibleRoomsLargestFirst(n, c) ==
  LET all == [r \in 1..Len(project.rooms) |-> r]
      large == SelectSeq(all, LAMBDA r : project.rooms[r].capacity >= sess[n].capacity)
      small == SelectSeq(all, LAMBDA r : project.rooms[r].capacity < sess[n].capacity)
  IN IF sess[n].room # Undefined THEN <<RoomByName(sess[n].room)>>
     ELSE IF c.trackRoom # 0 THEN <<c.trackRoom>>
     ELSE SortBy(large, [i \in 1..Len(large) |-> 0 - project.rooms[large[i]].capacity])
          \o (IF ~c.meetCapacity
              THEN SortBy(small, [i \in 1..Len(small) |->
                                    0 - project.rooms[small[i]].capacity])
              ELSE <<>>)

\* The candidate rooms with the rooms below the capacity preference by
\* ascending capacity.
possibleRoomsSmallestFirst(n, c) ==
  LET all == [r \in 1..Len(project.rooms) |-> r]
      large == SelectSeq(all, LAMBDA r : project.rooms[r].capacity >= sess[n].capacity)
      small == SelectSeq(all, LAMBDA r : project.rooms[r].capacity < sess[n].capacity)
  IN IF sess[n].room # Undefined THEN <<RoomByName(sess[n].room)>>
     ELSE IF c.trackRoom # 0 THEN <<c.trackRoom>>
     ELSE SortBy(large, [i \in 1..Len(large) |-> project.rooms[large[i]].capacity])
          \o (IF ~c.meetCapacity
              THEN SortBy(small, [i \in 1..Len(small) |-> project.rooms[small[i]].capacity])
              ELSE <<>>)

\* Lines 229-250: the candidate rooms, as room positions in order
\* (0: the preserved room name matches no room).
possibleRooms(n, c) ==
  LET all == [r \in 1..Len(project.rooms) |-> r]
      large == SelectSeq(all, LAMBDA r : project.rooms[r].capacity >= sess[n].capacity)
      small == SelectSeq(all, LAMBDA r : project.rooms[r].capacity < sess[n].capacity)
  IN IF sess[n].room # Undefined THEN <<RoomByName(sess[n].room)>>
     ELSE IF c.trackRoom # 0 THEN <<c.trackRoom>>
     ELSE SortBy(large, [i \in 1..Len(large) |-> project.rooms[large[i]].capacity])
          \o (IF ~c.meetCapacity
              THEN SortBy(small, [i \in 1..Len(small) |->
                                    0 - project.rooms[small[i]].capacity])
              ELSE <<>>)

\* The candidate slots in the order of the slots of the project.
possibleSlotsInOrder(n, r, c) ==
  LET all == [k \in 1..Len(project.slots) |-> k]
      free == SelectSeq(all, LAMBDA k :
                ~\E m \in Range(roomSessions[r]) : sess[m].slot = project.slots[k].name)
  IN IF sess[n].slot # Undefined THEN <<SlotByName(sess[n].slot)>>
     ELSE free

\* The candidate slots sorted by number of sessions whether a home room is
\* in effect or not.
possibleSlotsAlwaysSorted(n, r, c) ==
  LET all == [k \in 1..Len(project.slots) |-> k]
      free == SelectSeq(all, LAMBDA k :
                ~\E m \in Range(roomSessions[r]) : sess[m].slot = project.slots[k].name)
  IN IF sess[n].slot # Undefined THEN <<SlotByName(sess[n].slot)>>
     ELSE SortBy(free, [i \in 1..Len(free) |->
             Len(slotSessions[free[i]]) * (Len(project.slots) + 1) + free[i]])

\* Lines 257-278: the candidate slots in a room, as slot positions in order
\* (0: the preserved slot name matches no slot).
possibleSlots(n, r, c) ==
  LET all == [k \in 1..Len(project.slots) |-> k]
      free == SelectSeq(all, LAMBDA k :
                ~\E m \in Range(roomSessions[r]) : sess[m].slot = project.slots[k].name)
  IN IF sess[n].slot # Undefined THEN <<SlotByName(sess[n].slot)>>
     ELSE IF c.trackRoom = 0
          THEN \* by number of sessions in the slot, then by position
               SortBy(free, [i \in 1..Len(free) |->
                  Len(slotSessions[free[i]]) * (Len(project.slots) + 1) + free[i]])
          ELSE free

\* nonConflictingSlot on an undefined slot reads slot.name for any other
\* session of the array, and slot.duration when duration is checked.
UndefinedSlotThrows(n, c) == (\E s \in Range(sessions) : s # n) \/ c.meetDuration

\* Lines 256-335: the loop over the candidate rooms.  The filter of line 260
\* reads room.sessions once per slot of the project: on a room that was not
\* found it throws at the first slot, and reads nothing when the project has
\* no slot.
RECURSIVE TryRooms(_, _, _)
TryRooms(n, c, rs) ==
  IF Len(rs) = 0 THEN [threw |-> FALSE, ok |-> FALSE, room |-> 0, slot |-> 0]
  ELSE LET r == Head(rs)
       IN IF sess[n].slot = Undefined /\ r = 0 /\ Len(project.slots) > 0
          THEN [threw |-> TRUE, ok |-> FALSE, room |-> 0, slot |-> 0]
          ELSE IF sess[n].slot = Undefined /\ r = 0
          THEN TryRooms(n, c, Tail(rs))
          ELSE LET ps == possibleSlots(n, r, c)
                   i == FirstIndex([j \in 1..Len(ps) |->
                          ps[j] = 0 \/ nonConflictingSlot(n, ps[j], c)])
               IN IF i # 0 /\ ps[i] = 0
                  THEN IF UndefinedSlotThrows(n, c)
                       THEN [threw |-> TRUE, ok |-> FALSE, room |-> 0, slot |-> 0]
                       ELSE TryRooms(n, c, Tail(rs))
                  ELSE IF i # 0
                  THEN [threw |-> FALSE, ok |-> TRUE, room |-> r, slot |-> ps[i]]
                  ELSE TryRooms(n, c, Tail(rs))

\* Lines 226-336.  [threw, ok, room, slot].
setRoomAndSlot(n, c) == TryRooms(n, c, possibleRooms(n, c))

\* The commit that takes the room and slot away from a session already there.
CommitSessionEvicting(n, r, k) ==
  [m \in DOMAIN sess |->
     IF m = n
     THEN [sess[m] EXCEPT !.room = IF @ = Undefined THEN project.rooms[r].name ELSE @,
                          !.slot = IF @ = Undefined THEN project.slots[k].name ELSE @]
     ELSE IF r # 0 /\ sess[m].room = project.rooms[r].name
             /\ sess[m].slot = project.slots[k].name
     THEN [sess[m] EXCEPT !.room = Undefined, !.slot = Undefined]
     ELSE sess[m]]

\* The commit that sets the room and leaves the slot for later.
CommitSessionRoomOnly(n, r, k) ==
  [sess EXCEPT ![n].room = IF @ = Undefined THEN project.rooms[r].name ELSE @]

\* Lines 323-330: the session fields after a successful search.
CommitSession(n, r, k) ==
  [sess EXCEPT ![n].room = IF @ = Undefined THEN project.rooms[r].name ELSE @,
               ![n].slot = IF @ = Undefined THEN project.slots[k].name ELSE @]

\* Line 325.
CommitRoomView(n, r) ==
  IF sess[n].room = Undefined
  THEN [roomSessions EXCEPT ![r] = Append(@, n)]
  ELSE roomSessions

\* The slot's list extended at every placement, preserved slot or not.
CommitSlotViewAlways(n, k) == [slotSessions EXCEPT ![k] = Append(@, n)]

\* Line 329.
CommitSlotView(n, k) ==
  IF sess[n].slot = Undefined
  THEN [slotSessions EXCEPT ![k] = Append(@, n)]
  ELSE slotSessions

(***************************************************************************)
(* The orchestrator loop (lines 341-403).                                  *)
(***************************************************************************)
\* Lines 351-357.
FreshConstraints(room) ==
  [trackRoom |-> room, strictDuration |-> TRUE, meetDuration |-> TRUE,
   meetCapacity |-> TRUE, meetConflicts |-> <<"session", "track">>]

\* The ladder with capacity forgotten before duration.
RelaxOutcomeCapacityFirst(c) ==
  IF c.strictDuration
  THEN [c |-> [c EXCEPT !.strictDuration = FALSE],
        msg |-> "relax duration comparison", stop |-> FALSE]
  ELSE IF c.trackRoom # 0
  THEN [c |-> [c EXCEPT !.trackRoom = 0],
        msg |-> "relax track constraint", stop |-> FALSE]
  ELSE IF c.meetCapacity
  THEN [c |-> [c EXCEPT !.meetCapacity = FALSE],
        msg |-> "forget capacity constraint", stop |-> FALSE]
  ELSE IF c.meetDuration
  THEN [c |-> [c EXCEPT !.meetDuration = FALSE],
        msg |-> "forget duration constraint", stop |-> FALSE]
  ELSE IF Len(c.meetConflicts) = 2
  THEN [c |-> [c EXCEPT !.meetConflicts = <<"track">>],
        msg |-> "forget session conflicts", stop |-> FALSE]
  ELSE IF Len(c.meetConflicts) > 0 /\ c.meetConflicts[1] = "track"
  THEN [c |-> [c EXCEPT !.meetConflicts = <<"session">>],
        msg |-> "forget track conflicts", stop |-> FALSE]
  ELSE IF Len(c.meetConflicts) > 0
  THEN [c |-> [c EXCEPT !.meetConflicts = <<>>],
        msg |-> "forget all conflicts", stop |-> FALSE]
  ELSE [c |-> c, msg |-> "[WARNING] could not find a room and slot", stop |-> TRUE]

\* The ladder whose last branch does not leave the loop.
RelaxOutcomeNoBreak(c) ==
  IF c.strictDuration
  THEN [c |-> [c EXCEPT !.strictDuration = FALSE],
        msg |-> "relax duration comparison", stop |-> FALSE]
  ELSE IF c.trackRoom # 0
  THEN [c |-> [c EXCEPT !.trackRoom = 0],
        msg |-> "relax track constraint", stop |-> FALSE]
  ELSE IF c.meetDuration
  THEN [c |-> [c EXCEPT !.meetDuration = FALSE],
        msg |-> "forget duration constraint", stop |-> FALSE]
  ELSE IF c.meetCapacity
  THEN [c |-> [c EXCEPT !.meetCapacity = FALSE],
        msg |-> "forget capacity constraint", stop |-> FALSE]
  ELSE IF Len(c.meetConflicts) = 2
  THEN [c |-> [c EXCEPT !.meetConflicts = <<"track">>],
        msg |-> "forget session conflicts", stop |-> FALSE]
  ELSE IF Len(c.meetConflicts) > 0 /\ c.meetConflicts[1] = "track"
  THEN [c |-> [c EXCEPT !.meetConflicts = <<"session">>],
        msg |-> "forget track conflicts", stop |-> FALSE]
  ELSE IF Len(c.meetConflicts) > 0
  THEN [c |-> [c EXCEPT !.meetConflicts = <<>>],
        msg |-> "forget all conflicts", stop |-> FALSE]
  ELSE [c |-> c, msg |-> "[WARNING] could not find a room and slot", stop |-> FALSE]

\* The ladder that forgets all conflicts in one step.
RelaxOutcomeShortLadder(c) ==
  IF c.strictDuration
  THEN [c |-> [c EXCEPT !.strictDuration = FALSE],
        msg |-> "relax duration comparison", stop |-> FALSE]
  ELSE IF c.trackRoom # 0
  THEN [c |-> [c EXCEPT !.trackRoom = 0],
        msg |-> "relax track constraint", stop |-> FALSE]
  ELSE IF c.meetDuration
  THEN [c |-> [c EXCEPT !.meetDuration = FALSE],
        msg |-> "forget duration constraint", stop |-> FALSE]
  ELSE IF c.meetCapacity
  THEN [c |-> [c EXCEPT !.meetCapacity = FALSE],
        msg |-> "forget capacity constraint", stop |-> FALSE]
  ELSE IF Len(c.meetConflicts) > 0
  THEN [c |-> [c EXCEPT !.meetConflicts = <<>>],
        msg |-> "forget all conflicts", stop |-> FALSE]
  ELSE [c |-> c, msg |-> "[WARNING] could not find a room and slot", stop |-> TRUE]

\* The ladder without the step that drops the home room.
RelaxOutcomeKeepsHome(c) ==
  IF c.strictDuration
  THEN [c |-> [c EXCEPT !.strictDuration = FALSE],
        msg |-> "relax duration comparison", stop |-> FALSE]
  ELSE IF c.meetDuration
  THEN [c |-> [c EXCEPT !.meetDuration = FALSE],
        msg |-> "forget duration constraint", stop |-> FALSE]
  ELSE IF c.meetCapacity
  THEN [c |-> [c EXCEPT !.meetCapacity = FALSE],
        msg |-> "forget capacity constraint", stop |-> FALSE]
  ELSE IF Len(c.meetConflicts) = 2
  THEN [c |-> [c EXCEPT !.meetConflicts = <<"track">>],
        msg |-> "forget session conflicts", stop |-> FALSE]
  ELSE IF Len(c.meetConflicts) > 0 /\ c.meetConflicts[1] = "track"
  THEN [c |-> [c EXCEPT !.meetConflicts = <<"session">>],
        msg |-> "forget track conflicts", stop |-> FALSE]
  ELSE IF Len(c.meetConflicts) > 0
  THEN [c |-> [c EXCEPT !.meetConflicts = <<>>],
        msg |-> "forget all conflicts", stop |-> FALSE]
  ELSE [c |-> c, msg |-> "[WARNING] could not find a room and slot", stop |-> TRUE]

\* Lines 359-390: what a failed search leads to.  [c, msg, stop].
RelaxOutcome(c) ==
  IF c.strictDuration
  THEN [c |-> [c EXCEPT !.strictDuration = FALSE],
        msg |-> "relax duration comparison", stop |-> FALSE]
  ELSE IF c.trackRoom # 0
  THEN [c |-> [c EXCEPT !.trackRoom = 0],
        msg |-> "relax track constraint", stop |-> FALSE]
  ELSE IF c.meetDuration
  THEN [c |-> [c EXCEPT !.meetDuration = FALSE],
        msg |-> "forget duration constraint", stop |-> FALSE]
  ELSE IF c.meetCapacity
  THEN [c |-> [c EXCEPT !.meetCapacity = FALSE],
        msg |-> "forget capacity constraint", stop |-> FALSE]
  ELSE IF Len(c.meetConflicts) = 2
  THEN [c |-> [c EXCEPT !.meetConflicts = <<"track">>],
        msg |-> "forget session conflicts", stop |-> FALSE]
  ELSE IF Len(c.meetConflicts) > 0 /\ c.meetConflicts[1] = "track"
  THEN [c |-> [c EXCEPT !.meetConflicts = <<"session">>],
        msg |-> "forget track conflicts", stop |-> FALSE]
  ELSE IF Len(c.meetConflicts) > 0
  THEN [c |-> [c EXCEPT !.meetConflicts = <<>>],
        msg |-> "forget all conflicts", stop |-> FALSE]
  ELSE [c |-> c, msg |-> "[WARNING] could not find a room and slot", stop |-> TRUE]

\* Lines 392-394: the line logged for a session that has a room and a slot.
AssignedLine(n, ss) ==
  IF ss[n].room # Undefined /\ ss[n].slot # Undefined
  THEN <<[msg |-> "assigned", number |-> n]>>
  ELSE <<>>

\* The pull with the constraints declared once, outside the loop over the
\* sessions: the next session starts where the previous one ended, in the
\* home room of the track.
PullNextCarrying(track, ss, room, tr) ==
  LET next == selectNextSession(track, ss)
  IN IF next = 0
     THEN /\ cur' = 0
          /\ sess' = ss
          /\ trace' = tr
          /\ pc' = "tracks"
          /\ UNCHANGED constraints
     ELSE /\ cur' = next
          /\ sess' = [ss EXCEPT ![next].processed = TRUE]
          /\ constraints' = [constraints EXCEPT !.trackRoom = room]
          /\ trace' = [tr EXCEPT ![next].home = room, ![next].track = track,
                                 ![next].pulls = @ + 1]
          /\ pc' = "search"

\* Lines 349/395 followed by the loop test: pull the next session of the
\* track being visited, or leave the inner loop.
PullNext(track, ss, room, tr) ==
  LET next == selectNextSession(track, ss)
  IN IF next = 0
     THEN /\ cur' = 0
          /\ sess' = ss
          /\ trace' = tr
          /\ pc' = "tracks"
          /\ UNCHANGED constraints
     ELSE /\ cur' = next
          /\ sess' = [ss EXCEPT ![next].processed = TRUE]
          /\ constraints' = FreshConstraints(room)
          /\ trace' = [tr EXCEPT ![next].home = room, ![next].track = track,
                                 ![next].pulls = @ + 1]
          /\ pc' = "search"

\* Lines 341-349: visit the next track.
VisitTrack ==
  /\ pc = "tracks"
  /\ ti < Len(tracks)
  /\ \E track \in {tracks[ti + 1]} :
     \E chosen \in {chooseTrackRoom(track)} :
        IF chosen.threw
        THEN /\ pc' = "threw"
             /\ UNCHANGED <<ti, trackRoom, cur, sess, constraints, trace>>
        ELSE /\ ti' = ti + 1
             /\ trackRoom' = chosen.room
             /\ PullNext(track, sess, chosen.room, trace)
  /\ UNCHANGED <<project, argv, args, sessions, shuffled, seed, cli, preserve, tracks,
                 roomSessions, slotSessions, log, report, writes>>

\* Lines 358-395: one call of setRoomAndSlot and what follows it.
Search ==
  /\ pc = "search"
  /\ \E found \in {setRoomAndSlot(cur, constraints)} :
     \E out \in {RelaxOutcome(constraints)} :
     \E searched \in {[trace EXCEPT ![cur].searches = @ + 1]} :
        IF found.threw
        THEN /\ pc' = "threw"
             /\ trace' = searched
             /\ UNCHANGED <<sess, roomSessions, slotSessions, log, cur, constraints>>
        ELSE IF found.ok
        THEN LET placed == CommitSession(cur, found.room, found.slot)
             IN /\ roomSessions' = CommitRoomView(cur, found.room)
                /\ slotSessions' = CommitSlotView(cur, found.slot)
                /\ log' = log \o AssignedLine(cur, placed)
                /\ PullNext(tracks[ti], placed, trackRoom, searched)
        ELSE IF out.stop
        THEN /\ log' = log \o <<[msg |-> out.msg, number |-> cur]>>
                           \o AssignedLine(cur, sess)
             /\ UNCHANGED <<roomSessions, slotSessions>>
             /\ PullNext(tracks[ti], sess, trackRoom, searched)
        ELSE /\ log' = log \o <<[msg |-> out.msg, number |-> cur]>>
             /\ constraints' = out.c
             /\ trace' = searched
             /\ UNCHANGED <<sess, roomSessions, slotSessions, cur, pc>>
  /\ UNCHANGED <<project, argv, args, sessions, shuffled, seed, cli, preserve, tracks,
                 ti, trackRoom, report, writes>>

(***************************************************************************)
(* The report (lines 405-581) and the apply phase (lines 583-591).         *)
(***************************************************************************)
\* Lines 432-441: the grid by session, one line per session of the array.
GridBySession(list) ==
  [i \in 1..Len(list) |->
     [number |-> list[i],
      scheduled |-> sess[list[i]].slot # Undefined /\ sess[list[i]].room # Undefined]]

\* The unscheduled list with "and" for "or".
UnscheduledNeither(list) ==
  SelectSeq(list, LAMBDA n : sess[n].slot = Undefined /\ sess[n].room = Undefined)

\* Line 558.
Unscheduled(list) ==
  SelectSeq(list, LAMBDA n : sess[n].slot = Undefined \/ sess[n].room = Undefined)

\* Line 435-436 reads room.label of the room found by name.
GridThrows(list) ==
  \E n \in Range(list) :
    /\ sess[n].slot # Undefined
    /\ sess[n].room # Undefined
    /\ RoomByName(sess[n].room) = 0

\* Lines 432-441 up to the throw of line 436: the lines printed for the
\* sessions that come before the first one whose room was not found.
GridBeforeThrow(list) ==
  LET i == FirstIndex([j \in 1..Len(list) |->
                         /\ sess[list[j]].slot # Undefined
                         /\ sess[list[j]].room # Undefined
                         /\ RoomByName(sess[list[j]].room) = 0])
  IN GridBySession(SubSeq(list, 1, i - 1))

\* The phase entered with the apply flag ignored.
AfterReportAlways == "apply"

\* Line 583: what follows the report.
AfterReport == IF args.apply THEN "apply" ELSE "done"

\* Lines 564-565: preserve.sort((n1, n2) => n1 - n2) sorts the list in place.
PreserveInPractice == SortBy(preserve, preserve)

\* The list is the caller's array when it was given as a list and no except
\* list made line 142 copy it: the caller sees the sorted list.
CallerArgs(sorted) ==
  IF args.preserve.kind = "list" /\ args.except.kind = "undefined"
  THEN [args EXCEPT !.preserve.ids = sorted]
  ELSE args

Report ==
  /\ pc = "tracks"
  /\ ti = Len(tracks)
  /\ LET sorted == SortBy(sessions, sessions)
     IN /\ sessions' = sorted
        /\ IF GridThrows(sorted)
           THEN /\ report' = [report EXCEPT !.grid = GridBeforeThrow(sorted)]
                /\ pc' = "threw"
                /\ UNCHANGED <<preserve, args>>
           ELSE /\ report' = [grid |-> GridBySession(sorted),
                              unscheduled |-> Unscheduled(sorted),
                              seed |-> cli.seed]
                /\ preserve' = PreserveInPractice
                /\ args' = CallerArgs(PreserveInPractice)
                /\ pc' = AfterReport
  /\ UNCHANGED <<project, argv, sess, shuffled, seed, cli, tracks,
                 roomSessions, slotSessions, ti, trackRoom, cur, constraints,
                 log, trace, writes>>

\* Line 585.
SessionsToUpdate == SelectSeq(sessions, LAMBDA n : sess[n].updated)

\* Lines 586-590, one turn of the event loop per step: the await of line 588
\* gives control back after each call.  The calls made so far are the
\* position in the loop.  A step ends the call before it ('... done', or the
\* rejection, which leaves the loop and main: the await is in no try block)
\* and makes the next call, whose outcome is either.
UpdatingDone(list) ==
  IF Len(writes) > 0
  THEN <<[msg |-> "updating done", number |-> list[Len(writes)]]>>
  ELSE <<>>

Apply ==
  /\ pc = "apply"
  /\ LET list == SessionsToUpdate
     IN IF Len(writes) > 0 /\ ~writes[Len(writes)].ok
        THEN /\ pc' = "threw"
             /\ UNCHANGED <<writes, log>>
        ELSE IF Len(writes) < Len(list)
        THEN /\ \E ok \in BOOLEAN :
                  writes' = Append(writes, [number |-> list[Len(writes) + 1], ok |-> ok])
             /\ log' = log \o UpdatingDone(list)
                           \o <<[msg |-> "updating", number |-> list[Len(writes) + 1]]>>
             /\ pc' = "apply"
        ELSE /\ log' = log \o UpdatingDone(list)
             /\ pc' = "done"
             /\ UNCHANGED writes
  /\ UNCHANGED <<project, argv, args, sessions, sess, shuffled, seed, cli, preserve,
                 tracks, roomSessions, slotSessions, ti, trackRoom, cur,
                 constraints, trace, report>>

(***************************************************************************)
(* Inputs: the projects and the parameters of main the model starts from.  *)
(***************************************************************************)
RoomNames == <<"R1", "R2", "R3", "R4">>
SlotNames == <<"S1", "S2", "S3", "S4">>
People == <<"ann", "bob", "cyd", "dee", "eve">>

\* Rooms of capacity 20, 40, ...; slots of 60 and 30 minutes in turn.
Rooms == [r \in 1..NumRooms |-> [name |-> RoomNames[r], capacity |-> 20 * r]]
Slots == [k \in 1..NumSlots |->
            [name |-> SlotNames[k], duration |-> IF k % 2 = 1 THEN 60 ELSE 30]]

Chair(i) == [login |-> People[i], name |-> People[i]]
SessionLabel == [prefix |-> "", rest |-> "session"]
TrackLabel(track) == [prefix |-> "track: ", rest |-> track]
Error(severity, type) == [severity |-> severity, type |-> type]

\* A session with its own chair, no track, no conflict, nothing assigned.
\* Capacity preferences are 0 (unknown), 15, 30 or 50; durations 30 or 60.
Plain(n) ==
  [number |-> n, labels |-> <<SessionLabel>>, capacity |-> 15, duration |-> 60,
   chairs |-> <<Chair(n)>>, conflicts |-> <<>>, room |-> Undefined,
   slot |-> Undefined, errors |-> <<>>]

All == [kind |-> "all", ids |-> <<>>]
List(ids) == [kind |-> "list", ids |-> ids]
NoList == [kind |-> "undefined", ids |-> <<>>]

Ids == 1..NumSessions
Project(ss) == [rooms |-> Rooms, slots |-> Slots, sessions |-> ss]
Params(p, e, a, s) == [preserve |-> p, except |-> e, apply |-> a, seed |-> s]

\* The first and the last seed: the projects of a family that treats all
\* sessions alike are the same under any renumbering of the sessions, so a
\* second order of the array adds no behaviour that a renumbering does not.
TwoSeeds == {0, Pow(Grain, NumSessions - 1) - 1}

\* Capacity and duration preferences vary.
FamBasic ==
  {[project |-> Project([n \in Ids |->
        [Plain(n) EXCEPT !.capacity = f[n][1], !.duration = f[n][2]]]),
    args |-> Params(List(<<>>), NoList, FALSE, s)] :
   f \in [Ids -> {0, 15, 50} \X {30, 60}], s \in Seeds}

\* Track labels and capacity preferences vary.
TrackLabels ==
  {<<SessionLabel>>, <<SessionLabel, TrackLabel("a")>>, <<TrackLabel("b")>>,
   <<TrackLabel("a"), TrackLabel("b")>>}

FamTrack ==
  {[project |-> Project([n \in Ids |->
        [Plain(n) EXCEPT !.labels = f[n][1], !.capacity = f[n][2]]]),
    args |-> Params(List(<<>>), NoList, FALSE, s)] :
   f \in [Ids -> TrackLabels \X {15, 50}], s \in TwoSeeds}

\* Chairs and assignments made before the run vary; everything is preserved.
FamChair ==
  {[project |-> Project([n \in Ids |->
        [Plain(n) EXCEPT !.chairs = <<Chair(f[n][1])>>, !.slot = f[n][2],
                         !.room = f[n][3]]]),
    args |-> Params(All, NoList, FALSE, s)] :
   f \in [Ids -> {1, 2} \X {Undefined, "S1", "S2"} \X {Undefined, "R1"}],
   s \in TwoSeeds}

\* Assignments made before the run and the preserve and except lists vary.
Directives ==
  {<<All, NoList>>, <<All, List(<<>>)>>, <<All, List(<<1>>)>>,
   <<All, List(<<2, 3>>)>>, <<List(<<>>), NoList>>, <<List(<<1>>), NoList>>,
   <<List(<<3, 1>>), NoList>>, <<NoList, NoList>>}

FamPreserve ==
  {[project |-> Project([n \in Ids |->
        [Plain(n) EXCEPT !.room = f[n][1], !.slot = f[n][2]]]),
    args |-> Params(d[1], d[2], FALSE, s)] :
   f \in [Ids -> {Undefined, "R1", "R2"} \X {Undefined, "S1"}],
   d \in Directives, s \in TwoSeeds}

\* Validation findings vary, on sessions with and without an assignment.
Findings ==
  {<<>>, <<Error("error", "format")>>, <<Error("error", "chair conflict")>>,
   <<Error("warning", "format"), Error("error", "scheduling")>>}

FamValid ==
  {[project |-> Project([n \in Ids |->
        [Plain(n) EXCEPT !.errors = f[n][1], !.room = f[n][2][1],
                         !.slot = f[n][2][2]]]),
    args |-> Params(All, NoList, FALSE, s)] :
   f \in [Ids -> Findings \X {<<Undefined, Undefined>>, <<"R1", "S1">>}],
   s \in TwoSeeds}

\* One room and one slot, the three sessions with the same chair: the first
\* one is valid and has the room and the slot, the second one is valid and
\* has the room or nothing, the third one has a blocking error or none and
\* the room and the slot or nothing.
FamExcluded ==
  {[project |-> [rooms |-> <<[name |-> "R1", capacity |-> 20]>>,
                 slots |-> <<[name |-> "S1", duration |-> 60]>>,
                 sessions |-> [n \in Ids |->
                   [Plain(n) EXCEPT !.chairs = <<Chair(1)>>,
                                    !.errors = IF n = 3 THEN e ELSE <<>>,
                                    !.room = IF n = 1 THEN "R1"
                                             ELSE IF n = 2 THEN r ELSE a[1],
                                    !.slot = IF n = 1 THEN "S1"
                                             ELSE IF n = 2 THEN Undefined ELSE a[2]]]],
    args |-> Params(All, NoList, FALSE, s)] :
   e \in {<<>>, <<Error("error", "format")>>}, r \in {Undefined, "R1"},
   a \in {<<Undefined, Undefined>>, <<"R1", "S1">>}, s \in TwoSeeds}

\* Tracks and chairs vary together.
FamLadder ==
  {[project |-> Project([n \in Ids |->
        [Plain(n) EXCEPT !.labels = f[n][1], !.chairs = <<Chair(f[n][2])>>]]),
    args |-> Params(List(<<>>), NoList, FALSE, s)] :
   f \in [Ids -> {<<SessionLabel>>, <<TrackLabel("a")>>} \X {1, 2}],
   s \in TwoSeeds}

\* No seed is given; the grid is applied or not.
FamSeed ==
  {[project |-> Project([n \in Ids |-> [Plain(n) EXCEPT !.capacity = f[n]]]),
    args |-> Params(List(<<>>), NoList, a, NoSeed)] :
   f \in [Ids -> {15, 30}], a \in BOOLEAN}

\* Room and slot names of sessions that match no room and no slot of the
\* project (the option was renamed or removed), with the apply flag set or not.
Assignments ==
  {<<Undefined, Undefined>>, <<"R1", Undefined>>, <<"RX", Undefined>>,
   <<"RX", "S1">>, <<Undefined, "SX">>, <<"R1", "SX">>}

FamBroken ==
  {[project |-> Project([n \in Ids |->
        [Plain(n) EXCEPT !.room = f[n][1], !.slot = f[n][2],
                         !.labels = IF tracked THEN <<TrackLabel("a")>>
                                    ELSE <<SessionLabel>>]]),
    args |-> Params(All, NoList, a, 0)] :
   f \in [Ids -> Assignments], tracked \in BOOLEAN, a \in BOOLEAN}

\* A project without slots: the sessions are in no track or in one track,
\* and have no room, a room of the project or a room that the project does
\* not have.
FamNoSlot ==
  {[project |-> [rooms |-> Rooms, slots |-> <<>>,
                 sessions |-> [n \in Ids |->
                   [Plain(n) EXCEPT !.room = f[n],
                                    !.labels = IF tracked THEN <<TrackLabel("a")>>
                                               ELSE <<SessionLabel>>]]],
    args |-> Params(All, NoList, FALSE, s)] :
   f \in [Ids -> {Undefined, "R1", "RX"}], tracked \in BOOLEAN, s \in TwoSeeds}

\* A project without rooms: the sessions are in no track or in one track.
FamNoRoom ==
  {[project |-> [rooms |-> <<>>, slots |-> Slots,
                 sessions |-> [n \in Ids |->
                   [Plain(n) EXCEPT !.labels = IF tracked THEN <<TrackLabel("a")>>
                                               ELSE <<SessionLabel>>]]],
    args |-> Params(All, NoList, FALSE, s)] :
   tracked \in BOOLEAN, s \in TwoSeeds}

\* Scenario A: rooms of capacity 20 and 50, two slots of 60 minutes, three
\* sessions of 60 minutes with capacities 10, 10 and 40, under every seed.
ScenarioA ==
  [rooms |-> <<[name |-> "R1", capacity |-> 20], [name |-> "R2", capacity |-> 50]>>,
   slots |-> <<[name |-> "S1", duration |-> 60], [name |-> "S2", duration |-> 60]>>,
   sessions |-> [n \in 1..3 |->
                   [Plain(n) EXCEPT !.capacity = IF n = 3 THEN 40 ELSE 10]]]

FamScenarioA ==
  {[project |-> ScenarioA, args |-> Params(List(<<>>), NoList, FALSE, s)] :
   s \in Seeds}

\* Scenario B: one room, one slot, two sessions with the same chair; the
\* capacity and duration preferences vary.
ScenarioB ==
  {[rooms |-> <<[name |-> "R1", capacity |-> 20]>>,
    slots |-> <<[name |-> "S1", duration |-> 60]>>,
    sessions |-> [n \in 1..2 |->
                    [Plain(n) EXCEPT !.chairs = <<Chair(1)>>,
                                     !.capacity = f[n][1], !.duration = f[n][2]]]] :
   f \in [1..2 -> {15, 50} \X {30, 60}]}

FamScenarioB ==
  {[project |-> p, args |-> Params(List(<<>>), NoList, FALSE, s)] :
   p \in ScenarioB, s \in Seeds}

\* Scenario D: one room, two slots, two sessions that declare each other as
\* conflicting; the second slot lasts 60 or 30 minutes, the capacity and
\* duration preferences vary.
ScenarioD ==
  {[rooms |-> <<[name |-> "R1", capacity |-> 20]>>,
    slots |-> <<[name |-> "S1", duration |-> 60], [name |-> "S2", duration |-> d]>>,
    sessions |-> [n \in 1..2 |->
                    [Plain(n) EXCEPT !.conflicts = <<3 - n>>,
                                     !.capacity = f[n][1], !.duration = f[n][2]]]] :
   f \in [1..2 -> {15, 50} \X {30, 60}], d \in {30, 60}}

FamScenarioD ==
  {[project |-> p, args |-> Params(List(<<>>), NoList, FALSE, s)] :
   p \in ScenarioD, s \in TwoSeeds}

\* Declared conflicts vary, each session declaring the next one or none, on
\* sessions with and without a slot assigned before the run; everything is
\* preserved.
FamConflict ==
  {[project |-> Project([n \in Ids |->
        [Plain(n) EXCEPT !.conflicts = IF f[n][1] THEN <<(n % NumSessions) + 1>>
                                       ELSE <<>>,
                         !.slot = f[n][2]]]),
    args |-> Params(All, NoList, FALSE, s)] :
   f \in [Ids -> BOOLEAN \X {Undefined, "S1"}], s \in TwoSeeds}

\* The chair of each session varies: a GitHub login with a W3C account name,
\* or a login alone. fetchSessionChairs gives every chair a login.
Identities ==
  {[login |-> "ann", name |-> "cyd"], [login |-> "bob", name |-> "cyd"],
   [login |-> "bob", name |-> "dee"], [login |-> "ann", name |-> ""]}

FamIdentity ==
  {[project |-> Project([n \in Ids |-> [Plain(n) EXCEPT !.chairs = <<f[n]>>]]),
    args |-> Params(List(<<>>), NoList, FALSE, s)] :
   f \in [Ids -> Identities], s \in TwoSeeds}

\* Tracks, capacity preferences and rooms assigned before the run vary, in a
\* project with one slot more; everything is preserved.
HomeProject(ss) ==
  [rooms |-> Rooms,
   slots |-> [k \in 1..(NumSlots + 1) |-> [name |-> SlotNames[k], duration |-> 60]],
   sessions |-> ss]

FamHome ==
  {[project |-> HomeProject([n \in Ids |->
        [Plain(n) EXCEPT !.labels = IF n = 1 \/ f[n][1] THEN <<TrackLabel("a")>>
                                    ELSE <<SessionLabel>>,
                         !.capacity = IF n = 1 THEN c ELSE 15,
                         !.room = f[n][2]]]),
    args |-> Params(All, NoList, FALSE, s)] :
   f \in [Ids -> BOOLEAN \X {Undefined, "R1", "R2"}], c \in {15, 30, 50},
   s \in TwoSeeds}

\* Two rooms whose names give no capacity, which both get the capacity 30:
\* the capacity preferences vary.
TieProject(ss) ==
  [rooms |-> [r \in 1..NumRooms |-> [name |-> RoomNames[r], capacity |-> 30]],
   slots |-> Slots,
   sessions |-> ss]

FamTie ==
  {[project |-> TieProject([n \in Ids |-> [Plain(n) EXCEPT !.capacity = f[n]]]),
    args |-> Params(List(<<>>), NoList, FALSE, s)] :
   f \in [Ids -> {15, 50}], s \in TwoSeeds}

\* A track of one or two sessions next to a session of no track that has a
\* room and a slot, preserved, in a project with slots of equal duration.
FamBackToBack ==
  {[project |-> HomeProject([n \in Ids |->
        [Plain(n) EXCEPT !.labels = IF n = 1 \/ (n = 2 /\ two) THEN <<TrackLabel("a")>>
                                    ELSE <<SessionLabel>>,
                         !.room = IF n = 3 THEN r ELSE Undefined,
                         !.slot = IF n = 3 THEN k ELSE Undefined]]),
    args |-> Params(All, NoList, FALSE, s)] :
   two \in BOOLEAN, r \in {"R1", "R2"}, k \in {"S1", "S2"}, s \in TwoSeeds}

\* A track of three sessions in a project with two rooms and two slots of
\* equal duration: the declared conflicts vary.
TrackOfThreeProject(ss) ==
  [rooms |-> ScenarioA.rooms, slots |-> ScenarioA.slots, sessions |-> ss]

FamTrackConflict ==
  {[project |-> TrackOfThreeProject([n \in Ids |->
        [Plain(n) EXCEPT !.labels = <<TrackLabel("a")>>,
                         !.capacity = 10,
                         !.conflicts = IF f[n] THEN <<(n % NumSessions) + 1>>
                                       ELSE <<>>]]),
    args |-> Params(List(<<>>), NoList, FALSE, s)] :
   f \in [Ids -> BOOLEAN], s \in TwoSeeds}

\* Command lines: the words for preserve and except, apply or not, a seed
\* or none.  The project has sessions with and without an assignment.
NoWord == <<>>
PreserveWords ==
  {NoWord, <<"a", "l", "l">>, <<"n", "o", "n", "e">>, <<"1">>, <<"3", ",", "1">>,
   <<"x">>, <<"a", "l", "l", "x">>}
ExceptWords == {NoWord, <<"n", "o", "n", "e">>, <<"2">>, <<"x">>}
ApplyWords == {NoWord, <<"a", "p", "p", "l", "y">>}
NoArgv == [preserve |-> NoWord, except |-> NoWord, apply |-> NoWord, seed |-> NoSeed]

CliProject ==
  Project([n \in Ids |->
    [Plain(n) EXCEPT !.room = IF n = 1 THEN "R1" ELSE Undefined,
                     !.slot = IF n = 1 THEN "S1" ELSE IF n = 2 THEN "S2"
                              ELSE Undefined]])

FamCli ==
  {[project |-> CliProject,
    argv |-> [preserve |-> p, except |-> e, apply |-> a, seed |-> s]] :
   p \in PreserveWords, e \in ExceptWords, a \in ApplyWords, s \in {NoSeed, 0}}

(***************************************************************************)
(* The state machine.                                                      *)
(***************************************************************************)
\* main is called with the given parameters.
Given(input) ==
  /\ project = input.project
  /\ argv = NoArgv
  /\ args = input.args
  /\ pc = "start"

\* The tool is run with the given command line.
GivenCli(input) ==
  /\ project = input.project
  /\ argv = input.argv
  /\ args = Params(NoList, NoList, FALSE, NoSeed)
  /\ pc = "cli"

\* The state at the call of main, nothing retrieved yet.
Constructed ==
  /\ sessions = <<>>
  /\ sess = [n \in Numbers |->
               [room |-> P(n).room, slot |-> P(n).slot,
                capacity |-> P(n).capacity, tracks |-> <<>>,
                processed |-> FALSE, updated |-> FALSE]]
  /\ shuffled = <<>>
  /\ seed = args.seed
  /\ cli = [preserve |-> [kind |-> "none", ids |-> <<>>],
            except |-> [kind |-> "none", ids |-> <<>>],
            seed |-> NoSeed, apply |-> FALSE]
  /\ preserve = <<>>
  /\ tracks = <<>>
  /\ roomSessions = [r \in 1..Len(project.rooms) |-> <<>>]
  /\ slotSessions = [k \in 1..Len(project.slots) |-> <<>>]
  /\ ti = 0
  /\ trackRoom = 0
  /\ cur = 0
  /\ constraints = FreshConstraints(0)
  /\ log = <<>>
  /\ trace = [n \in Numbers |->
                [home |-> 0, track |-> Undefined, searches |-> 0, pulls |-> 0]]
  /\ report = [grid |-> <<>>, unscheduled |-> <<>>, seed |-> NoSeed]
  /\ writes = <<>>

Init ==
  /\ \/ \E input \in FamBasic : Given(input)
     \/ \E input \in FamTrack : Given(input)
     \/ \E input \in FamChair : Given(input)
     \/ \E input \in FamPreserve : Given(input)
     \/ \E input \in FamValid : Given(input)
     \/ \E input \in FamExcluded : Given(input)
     \/ \E input \in FamLadder : Given(input)
     \/ \E input \in FamSeed : Given(input)
     \/ \E input \in FamBroken : Given(input)
     \/ \E input \in FamNoSlot : Given(input)
     \/ \E input \in FamNoRoom : Given(input)
     \/ \E input \in FamCli : GivenCli(input)
     \/ \E input \in FamScenarioA : Given(input)
     \/ \E input \in FamScenarioB : Given(input)
     \/ \E input \in FamScenarioD : Given(input)
     \/ \E input \in FamConflict : Given(input)
     \/ \E input \in FamIdentity : Given(input)
     \/ \E input \in FamHome : Given(input)
     \/ \E input \in FamTie : Given(input)
     \/ \E input \in FamBackToBack : Given(input)
     \/ \E input \in FamTrackConflict : Given(input)
  /\ Constructed

Next ==
  \/ ParseArgs
  \/ Retrieve
  \/ Configure
  \/ VisitTrack
  \/ Search
  \/ Report
  \/ Apply

Spec == Init /\ [][Next]_vars

\* Assignments that name no room or slot of the project, the grid not
\* applied: the sessions in no track, or in one track with the third session
\* unassigned.
FamBrokenFew ==
  {b \in FamBroken :
     /\ ~b.args.apply
     /\ \/ b.project.sessions[1].labels = <<SessionLabel>>
        \/ /\ b.project.sessions[3].room = Undefined
           /\ b.project.sessions[3].slot = Undefined}

\* No seed given, the grid applied or not, every capacity preference 15.
FamSeedFew ==
  {b \in FamSeed : \A n \in Ids : b.project.sessions[n].capacity = 15}

\* The inputs of the runs followed to their end: the ladders with and without
\* a home room, a track of three sessions, the grid applied or not,
\* assignments that name no room or slot of the project, a project without
\* rooms, and the command lines.
FairInputs ==
  FamLadder \cup FamTrackConflict \cup FamSeedFew \cup FamBrokenFew \cup FamNoRoom

FairInit ==
  /\ \/ \E given \in FairInputs : Given(given)
     \/ \E given \in FamCli : GivenCli(given)
  /\ Constructed

\* The program is one thread that runs every statement to its end: a step
\* that can be taken is taken.
FairSpec == FairInit /\ [][Next]_vars /\ WF_vars(Next)

(***************************************************************************)
(* Properties.                                                             *)
(***************************************************************************)
Running == pc \in {"tracks", "search", "apply", "done"}
Placed(n) == sess[n].room # Undefined /\ sess[n].slot # Undefined
LinesOf(n) == SelectSeq(log, LAMBDA line : line.number = n)
Logged(n, msg) == \E i \in 1..Len(log) : log[i] = [msg |-> msg, number |-> n]
GiveUpLine == "[WARNING] could not find a room and slot"

\* The slot (room) of n was assigned before the run and is in the preserve list.
PreservedSlot(n) == n \in Range(preserve) /\ P(n).slot # Undefined
PreservedRoom(n) == n \in Range(preserve) /\ P(n).room # Undefined

\* Two sessions have a chair in common.
ShareChair(a, b) == Range(P(a).chairs) \cap Range(P(b).chairs) # {}

\* C1: at the end of a run, two distinct sessions of the run that share a
\* chair and both have a slot are in different slots, unless both slots were
\* assigned before the run and preserved.
C1_ChairExclusivity ==
  pc = "done" =>
    \A a \in Range(sessions) : \A b \in Range(sessions) :
      (a # b /\ ShareChair(a, b) /\ sess[a].slot # Undefined
         /\ sess[a].slot = sess[b].slot)
      => (PreservedSlot(a) /\ PreservedSlot(b))

\* C1 witness: a run ended with two sessions that share a chair in different
\* slots, one of which went down the ladder to the conflict steps.
C1_Witness ==
  /\ pc = "done"
  /\ \E a \in Range(sessions) : \E b \in Range(sessions) :
       /\ a # b /\ ShareChair(a, b)
       /\ sess[a].slot # Undefined /\ sess[b].slot # Undefined
       /\ sess[a].slot # sess[b].slot
       /\ ~PreservedSlot(a)
  /\ \E n \in Range(sessions) : Logged(n, "forget all conflicts")

\* The room of n was set by the run.
RoomSetByRun(n) == sess[n].room # Undefined /\ ~PreservedRoom(n)
RoomCapacity(name) == project.rooms[RoomByName(name)].capacity

\* C2: at the end of a run, a session whose room was set by the run and for
\* which no 'forget capacity constraint' step was logged is in a room whose
\* capacity is at least its capacity preference.
C2_CapacityWhenEnforced ==
  pc = "done" =>
    \A n \in Range(sessions) :
      (RoomSetByRun(n) /\ ~Logged(n, "forget capacity constraint"))
      => RoomCapacity(sess[n].room) >= sess[n].capacity

\* C3: once normalization is done, every session of the preserve list still
\* has the room and the slot it had before the run.
C3_PreservationHonored ==
  Running =>
    \A n \in Range(preserve) \cap Numbers :
      /\ P(n).room # Undefined => sess[n].room = P(n).room
      /\ P(n).slot # Undefined => sess[n].slot = P(n).slot

\* C3 witness: a run ended where the engine gave a slot to a session
\* preserved with a room only, in a slot already holding a preserved session.
C3_Witness ==
  /\ pc = "done"
  /\ \E n \in Range(preserve) \cap Range(sessions) :
       /\ P(n).room # Undefined /\ P(n).slot = Undefined
       /\ sess[n].room = P(n).room /\ sess[n].slot # Undefined
       /\ \E m \in Range(preserve) \cap Range(sessions) :
            m # n /\ P(m).slot = sess[n].slot

\* The numbers that a word of digits and commas lists, each of one digit.
DigitValue(c) ==
  CHOOSE v \in 0..9 : <<"0", "1", "2", "3", "4", "5", "6", "7", "8", "9">>[v + 1] = c
ListedNumbers(w) == {DigitValue(w[i]) : i \in {j \in 1..Len(w) : w[j] # ","}}

\* The tool was run with the words `all` and a list of session numbers.
AllExcept == argv.preserve = <<"a", "l", "l">> /\ IsNumberList(argv.except)

\* The run is past normalization, or over.
Normalized == pc \notin {"cli", "start", "retrieved"}

\* C4: when the tool is run with preserve "all" and an except list, once the
\* run is past normalization, or over, no session of the except list is in
\* the preserve list and its room and slot are cleared.
C4_ExceptFilter ==
  (AllExcept /\ Normalized)
  => \A n \in ListedNumbers(argv.except) \cap Numbers :
       /\ n \notin Range(preserve)
       /\ sess[n].room = Undefined
       /\ sess[n].slot = Undefined

\* The report lists n as unscheduled, in the grid by session and in the
\* 'Unscheduled sessions' list.
ListedUnscheduled(n) ==
  /\ n \in Range(report.unscheduled)
  /\ \E i \in 1..Len(report.grid) :
       report.grid[i].number = n /\ ~report.grid[i].scheduled

\* C5 as claimed: at the end of a run every session of the project is placed
\* or listed as unscheduled in the report.
C5_NoSilentDrop ==
  pc = "done" => \A n \in Numbers : Placed(n) \/ ListedUnscheduled(n)

PassesPreFilter(n) == Len(BlockingErrors(P(n).errors)) = 0

\* The report has no line for n, in the grid by session or in the
\* 'Unscheduled sessions' list.
NowhereInReport(n) ==
  /\ n \notin Range(report.unscheduled)
  /\ \A i \in 1..Len(report.grid) : report.grid[i].number # n

\* n has the room and the slot it entered the run with.
AsRetrieved(n) == sess[n].room = P(n).room /\ sess[n].slot = P(n).slot

\* C5 as amended: at the end of a run every session of the project that
\* passes the validation pre-filter is placed or listed as unscheduled in
\* the report; a session that the pre-filter excludes keeps the room and the
\* slot it entered with and has no line in the report.
C5_NoSilentDropOfValid ==
  pc = "done" =>
    \A n \in Numbers :
      IF PassesPreFilter(n)
      THEN Placed(n) \/ ListedUnscheduled(n)
      ELSE AsRetrieved(n) /\ NowhereInReport(n)

\* C5 witness: a run ended with a session that passed the pre-filter, has a
\* room but no slot, and is listed as unscheduled, and with a session that
\* the pre-filter excluded, which entered with a room and a slot, still has
\* them and has no line in the report.
C5_Witness ==
  /\ pc = "done"
  /\ \E n \in Numbers :
       /\ PassesPreFilter(n) /\ ~Placed(n) /\ sess[n].room # Undefined
       /\ ListedUnscheduled(n)
  /\ \E n \in Numbers : ~PassesPreFilter(n) /\ Placed(n) /\ NowhereInReport(n)

\* C7: when no seed is given, the seed reported at the end of the run is the
\* one that shuffling the valid sessions with yields the order of the run.
C7_SeedReproducible ==
  (pc = "done" /\ args.seed = NoSeed)
  => /\ report.seed = cli.seed
     /\ shuffled = shuffle(ValidSessions, report.seed)

\* The relaxation steps in their order, with a home room and without.
Ladder(home) ==
  IF home # 0
  THEN <<"relax duration comparison", "relax track constraint",
         "forget duration constraint", "forget capacity constraint",
         "forget session conflicts", "forget track conflicts",
         "forget all conflicts">>
  ELSE <<"relax duration comparison",
         "forget duration constraint", "forget capacity constraint",
         "forget session conflicts", "forget track conflicts",
         "forget all conflicts">>

\* The relaxation steps logged for n, in order.
StepsOf(n) ==
  LET lines == SelectSeq(LinesOf(n), LAMBDA line : line.msg \in Range(Ladder(1)))
  IN [i \in 1..Len(lines) |-> lines[i].msg]

IsPrefix(s, l) == Len(s) <= Len(l) /\ \A i \in 1..Len(s) : s[i] = l[i]

\* The constraints after the first k steps of the ladder.
RECURSIVE AfterSteps(_, _)
AfterSteps(home, steps) ==
  IF Len(steps) = 0 THEN FreshConstraints(home)
  ELSE LET before == AfterSteps(home, SubSeq(steps, 1, Len(steps) - 1))
           step == steps[Len(steps)]
       IN CASE step = "relax duration comparison" -> [before EXCEPT !.strictDuration = FALSE]
            [] step = "relax track constraint" -> [before EXCEPT !.trackRoom = 0]
            [] step = "forget duration constraint" -> [before EXCEPT !.meetDuration = FALSE]
            [] step = "forget capacity constraint" -> [before EXCEPT !.meetCapacity = FALSE]
            [] step = "forget session conflicts" -> [before EXCEPT !.meetConflicts = <<"track">>]
            [] step = "forget track conflicts" -> [before EXCEPT !.meetConflicts = <<"session">>]
            [] step = "forget all conflicts" -> [before EXCEPT !.meetConflicts = <<>>]

\* C8: the steps logged for a session are a prefix of the ladder (without
\* the home-room step when no home room applied); a session being processed
\* has had one step per search made and is searched next under the
\* constraints these steps leave; a session done with has had one search
\* more than steps.
C8_LadderOrder ==
  Running =>
    \A n \in Range(sessions) :
      /\ IsPrefix(StepsOf(n), Ladder(trace[n].home))
      /\ (pc = "search" /\ n = cur)
           => /\ trace[n].searches = Len(StepsOf(n))
              /\ constraints = AfterSteps(trace[n].home, StepsOf(n))
      /\ (sess[n].processed /\ ~(pc = "search" /\ n = cur))
           => trace[n].searches = Len(StepsOf(n)) + 1

\* C8 witness: a run ended where a session with a home room took all seven
\* steps and another session took none.
C8_Witness ==
  /\ pc = "done"
  /\ \E n \in Range(sessions) : StepsOf(n) = Ladder(1)
  /\ \E n \in Range(sessions) : StepsOf(n) = <<>> /\ Placed(n)

AllRelaxed(c) ==
  /\ ~c.strictDuration /\ c.trackRoom = 0 /\ ~c.meetDuration
  /\ ~c.meetCapacity /\ Len(c.meetConflicts) = 0

\* The search about to be made fails with every constraint relaxed: the call
\* returns false.  A call that raises an error returns nothing: the error
\* leaves main (lines 625-628).
LastSearchFails ==
  /\ pc = "search"
  /\ AllRelaxed(constraints)
  /\ ~setRoomAndSlot(cur, constraints).ok
  /\ ~setRoomAndSlot(cur, constraints).threw

\* What the step taken from a state where the last search fails does.
C9_GiveUpStep ==
  LastSearchFails =>
    /\ \A n \in Numbers : sess'[n].room = sess[n].room /\ sess'[n].slot = sess[n].slot
    /\ roomSessions' = roomSessions /\ slotSessions' = slotSessions
    /\ \E i \in (Len(log) + 1)..Len(log') :
         log'[i] = [msg |-> GiveUpLine, number |-> cur]
    /\ cur' # cur
    /\ \/ pc' = "tracks" /\ cur' = 0
       \/ pc' = "search" /\ cur' \in Range(sessions) /\ trace'[cur'].searches = 0

\* C9: a search that fails with every constraint relaxed changes no room, no
\* slot and no view, logs the warning for the session, and the orchestrator
\* goes on: to the next session of the track, not yet searched, or to the
\* next track.
C9_UnschedulableIsNotFatal == [][C9_GiveUpStep]_vars

\* C9 witness: a run ended where the warning was logged for a session that
\* has no room and no slot, and a session was assigned after that.
C9_Witness ==
  /\ pc = "done"
  /\ \E i \in 1..Len(log) : \E j \in 1..Len(log) :
       /\ i < j
       /\ log[i].msg = GiveUpLine
       /\ sess[log[i].number].room = Undefined
       /\ sess[log[i].number].slot = Undefined
       /\ log[j].msg = "assigned" /\ log[j].number # log[i].number
       /\ ~PreservedRoom(log[j].number)

\* A step keeps every room and every slot that a session has.
C10_KeepStep ==
  Running =>
    \A n \in Numbers :
      /\ sess[n].room # Undefined => sess'[n].room = sess[n].room
      /\ sess[n].slot # Undefined => sess'[n].slot = sess[n].slot

\* C10: from normalization on, a step never changes or removes a room or a
\* slot that a session has.
C10_NeverRevisited == [][C10_KeepStep]_vars

\* C10 witness: a run ended where the engine put a session in the room and
\* slot that another session already had.
C10_Witness ==
  /\ pc = "done"
  /\ \E a \in Range(sessions) : \E b \in Range(sessions) :
       /\ a # b /\ Placed(a) /\ sess[a].room = sess[b].room
       /\ sess[a].slot = sess[b].slot
       /\ ~PreservedRoom(a)

\* The slot of n was set by the run.
SlotSetByRun(n) == sess[n].slot # Undefined /\ ~PreservedSlot(n)

\* The external call was made for n.
Written(n) == \E i \in 1..Len(writes) : writes[i].number = n

\* C11: at the end of a run with the apply flag set, every session whose room
\* or slot was set by the run is marked as updated and the external call was
\* made for it, and the call was made for no other session.
C11_ModifiedPersisted ==
  (pc = "done" /\ args.apply) =>
    \A n \in Range(sessions) :
      /\ (RoomSetByRun(n) \/ SlotSetByRun(n)) => (sess[n].updated /\ Written(n))
      /\ Written(n) => (RoomSetByRun(n) \/ SlotSetByRun(n))

\* What a step may do to the external writes and to the apply phase.
C13_WriteStep ==
  /\ writes' # writes => pc = "apply"
  /\ (pc' = "apply" /\ pc # "apply") =>
       /\ args.apply
       /\ pc = "tracks" /\ ti = Len(tracks)
       /\ \A n \in Range(sessions) : sess[n].processed
  /\ (pc' = "threw" /\ pc # "apply") => writes' = <<>>

\* C13: an external write is made only in the apply phase; the apply phase
\* is entered only with the apply flag set, once every track has been visited
\* and every session processed; a run that throws before the apply phase has
\* made no write.
C13_NoPartialPersistence == [][C13_WriteStep]_vars

\* C13 witness: with the apply flag set, the pass threw on a session whose
\* preserved room matches no room, after it had given a room and a slot to
\* another session, and no write was made.
C13_Witness ==
  /\ pc = "threw"
  /\ args.apply
  /\ \E n \in Range(sessions) : RoomSetByRun(n) /\ SlotSetByRun(n)
  /\ cur # 0 /\ sess[cur].room = "RX" /\ sess[cur].slot = Undefined
  /\ writes = <<>>

\* Every track has been visited and its sessions processed.
AllVisited == pc \in {"apply", "done"} \/ (pc = "tracks" /\ ti = Len(tracks))

\* The first track, in visiting order, that n belongs to; the main track is
\* the track of every session.
FirstTrackOf(n) ==
  tracks[CHOOSE i \in 1..Len(tracks) :
           /\ tracks[i] = "" \/ tracks[i] \in Range(sess[n].tracks)
           /\ \A j \in 1..(i - 1) :
                tracks[j] # "" /\ tracks[j] \notin Range(sess[n].tracks)]

\* C14: a session of the run is pulled at most once, and this is when it is
\* flagged as processed; it is pulled during the visit of the first visited
\* track that it belongs to; once every track has been visited, every session
\* has been pulled.
C14_PulledOnce ==
  Running =>
    \A n \in Range(sessions) :
      /\ trace[n].pulls <= 1
      /\ sess[n].processed <=> trace[n].pulls = 1
      /\ trace[n].pulls = 1 => trace[n].track = FirstTrackOf(n)
      /\ AllVisited => trace[n].pulls = 1

\* C14 witness: a run ended where a session of two tracks was pulled once,
\* during the visit of the track that its second label names.
C14_Witness ==
  /\ pc = "done"
  /\ \E n \in Range(sessions) :
       /\ Len(sess[n].tracks) = 2
       /\ trace[n].pulls = 1
       /\ trace[n].track = sess[n].tracks[2]

\* C15: the main track is the last track of the list and the only empty one;
\* a session without track label is pulled during the visit of the main
\* track, with no home room; a session with a track label is pulled during
\* the visit of one of its tracks, with a home room; the session being
\* processed was pulled for the track being visited, with the home room
\* chosen for that track.
C15_TrackOrder ==
  Running =>
    /\ Len(tracks) > 0
    /\ \A i \in 1..Len(tracks) : tracks[i] = "" <=> i = Len(tracks)
    /\ \A n \in Range(sessions) :
         trace[n].pulls > 0 =>
           /\ Len(sess[n].tracks) = 0 => (trace[n].track = "" /\ trace[n].home = 0)
           /\ Len(sess[n].tracks) > 0 =>
                (trace[n].track \in Range(sess[n].tracks) /\ trace[n].home # 0)
    /\ pc = "search" =>
         (trace[cur].track = tracks[ti] /\ trace[cur].home = trackRoom)

\* C15 witness: a run ended where two named tracks and the main track were
\* visited, a session with a track label was processed with a home room and
\* a session without track label with none.
C15_Witness ==
  /\ pc = "done"
  /\ Len(tracks) = 3
  /\ \E n \in Range(sessions) :
       Len(sess[n].tracks) > 0 /\ trace[n].home # 0 /\ Placed(n)
  /\ \E n \in Range(sessions) :
       Len(sess[n].tracks) = 0 /\ trace[n].track = "" /\ Placed(n)

\* The validator reports for n an error that is not a chair conflict and not
\* a scheduling error.
HasOtherError(n) ==
  \E i \in 1..Len(P(n).errors) :
    /\ P(n).errors[i].severity = "error"
    /\ P(n).errors[i].type \notin {"chair conflict", "scheduling"}

\* C16: once the sessions are retrieved, a session of the project is in the
\* array of sessions handed to the engine if and only if the validator
\* reports for it no error of severity 'error' of another type than 'chair
\* conflict' and 'scheduling'.
C16_PreFilter ==
  (pc = "retrieved" \/ Running) =>
    \A n \in Numbers : n \in Range(sessions) <=> ~HasOtherError(n)

\* C16 witness: a run ended that excluded a session for a format error, and
\* kept a session with a chair conflict error and a session with a format
\* warning and a scheduling error, both of which it placed.
C16_Witness ==
  /\ pc = "done"
  /\ \E n \in Numbers :
       P(n).errors = <<Error("error", "format")>> /\ n \notin Range(sessions)
  /\ \E n \in Range(sessions) :
       P(n).errors = <<Error("error", "chair conflict")>> /\ Placed(n)
  /\ \E n \in Range(sessions) :
       /\ P(n).errors = <<Error("warning", "format"), Error("error", "scheduling")>>
       /\ Placed(n)

\* C17: a run whose preserve word is a list of session numbers does not end
\* in an error, and once normalization is done its preserve list holds
\* exactly the listed numbers.
C17_ExplicitPreserveList ==
  (IsNumberList(argv.preserve) /\ pc # "cli") =>
    /\ pc \notin {"threw", "exit"}
    /\ Running => Range(preserve) = ListedNumbers(argv.preserve)

\* No two sessions of the run are in the same room and slot.
NoTwoTogether ==
  \A a \in Range(sessions) : \A b \in Range(sessions) :
    (a # b /\ Placed(a) /\ Placed(b))
    => ~(sess[a].room = sess[b].room /\ sess[a].slot = sess[b].slot)

\* C18: a run on scenario A does not throw, and at its end all three
\* sessions are placed, no two in the same room and slot, the session of
\* capacity 40 is in the room of capacity 50, and the log holds no relaxation
\* step and no warning.
C18_ScenarioA ==
  project = ScenarioA =>
    /\ pc # "threw"
    /\ pc = "done" =>
         /\ Range(sessions) = {1, 2, 3}
         /\ \A n \in Range(sessions) : Placed(n) /\ StepsOf(n) = <<>>
         /\ NoTwoTogether
         /\ sess[3].room = "R2"
         /\ \A i \in 1..Len(log) : log[i].msg = "assigned"

\* C18 witness: a run on scenario A ended where the session of capacity 40
\* was processed last, after the two others had each taken a slot.
C18_Witness ==
  /\ project = ScenarioA
  /\ pc = "done"
  /\ shuffled[3] = 3
  /\ \A n \in {1, 2, 3} : Placed(n)

\* n went through every step of the ladder without a home room, got the
\* warning, has no room and no slot and is listed as unscheduled.
Exhausted(n) ==
  /\ StepsOf(n) = Ladder(0)
  /\ Logged(n, GiveUpLine)
  /\ sess[n].room = Undefined /\ sess[n].slot = Undefined
  /\ ListedUnscheduled(n)

\* C19: a run on scenario B does not throw, and at its end one of the two
\* sessions is placed and the other one went through every relaxation step,
\* got the warning and is listed as unscheduled.
C19_ScenarioB ==
  project \in ScenarioB =>
    /\ pc # "threw"
    /\ pc = "done" =>
         \E a \in {1, 2} : \E b \in {1, 2} :
           a # b /\ Placed(a) /\ ~Logged(a, GiveUpLine) /\ Exhausted(b)

\* C19 witness: a run on scenario B ended where session 2 was placed at the
\* first search and session 1, processed after it, was left unscheduled.
C19_Witness ==
  /\ project \in ScenarioB
  /\ pc = "done"
  /\ shuffled = <<2, 1>>
  /\ Placed(2) /\ trace[2].searches = 1
  /\ Exhausted(1) /\ trace[1].searches = 7

\* Scenario C: the project has two slots and three sessions, all valid, all
\* of the one track a, none assigned before the run, nothing preserved.
TrackOfThree ==
  /\ Len(project.sessions) = 3
  /\ Len(project.slots) = 2
  /\ Len(project.rooms) >= 2
  /\ \A n \in Numbers :
       /\ SessionTracks(n) = <<"a">>
       /\ P(n).room = Undefined /\ P(n).slot = Undefined
       /\ P(n).errors = <<>>

\* n is placed in the home room in effect when it was pulled.
InHome(n) ==
  /\ Placed(n)
  /\ trace[n].home # 0
  /\ sess[n].room = project.rooms[trace[n].home].name

\* At most two sessions are in the home room, and a session is placed in
\* another room after the home room restriction was dropped for it.
ForcedOut ==
  /\ Cardinality({n \in Range(sessions) : InHome(n)}) <= 2
  /\ \E n \in Range(sessions) :
       Placed(n) /\ ~InHome(n) /\ Logged(n, "relax track constraint")

\* C20 as claimed: at the end of a run on scenario C, at most two sessions of
\* the track are in the home room and one is placed in another room after the
\* home room restriction was dropped for it.
C20_ScenarioC ==
  (TrackOfThree /\ pc = "done") => ForcedOut

\* No session has a chair in common with each of the other sessions, by the
\* comparison of lines 292-294.
NoCommonChair ==
  \A n \in Numbers : \E m \in Numbers \ {n} : ~ChairConflict(m, n)

\* C20 as amended: the same, for a track none of whose sessions has a chair
\* in common with both of the others; and such a run does not throw.
C20_ScenarioCNoCommonChair ==
  (TrackOfThree /\ NoCommonChair) =>
    /\ pc # "threw"
    /\ pc = "done" => ForcedOut

\* C20 witness: a run on scenario C ended with two sessions in the home room
\* and the third one in the other room, where the third one has a chair in
\* common with one of the two and none with the other.
C20_Witness ==
  /\ TrackOfThree /\ NoCommonChair
  /\ pc = "done"
  /\ Cardinality({n \in Range(sessions) : InHome(n)}) = 2
  /\ \E n \in Range(sessions) :
       /\ Placed(n) /\ ~InHome(n)
       /\ Logged(n, "relax track constraint")
       /\ Logged(n, "forget track conflicts")
       /\ \E m \in Range(sessions) \ {n} :
            ChairConflict(m, n) /\ sess[m].slot # sess[n].slot

\* Scenario D: the two sessions of the project declare each other as
\* conflicting.
BothPlaced == Range(sessions) = {1, 2} /\ Placed(1) /\ Placed(2)

\* C21 as claimed: at the end of a run on scenario D both sessions are
\* placed, the second one processed after the session-conflict check was
\* relaxed for it, and the steps logged for it follow the ladder.
C21_ScenarioD ==
  (project \in ScenarioD /\ pc = "done") =>
    /\ BothPlaced
    /\ Logged(shuffled[2], "forget session conflicts")
    /\ IsPrefix(StepsOf(shuffled[2]), Ladder(0))

\* C21 as amended: a run on scenario D does not throw, and at its end both
\* sessions are placed, in the one room and in different slots, the
\* session-conflict check was relaxed for neither, and the steps logged for
\* each follow the ladder.
C21_ScenarioDNoRelaxation ==
  project \in ScenarioD =>
    /\ pc # "threw"
    /\ pc = "done" =>
         /\ BothPlaced
         /\ sess[1].room = "R1" /\ sess[2].room = "R1"
         /\ sess[1].slot # sess[2].slot
         /\ \A n \in {1, 2} :
              /\ ~Logged(n, "forget session conflicts")
              /\ IsPrefix(StepsOf(n), Ladder(0))

\* C21 witness: a run on scenario D ended where the session processed second
\* was placed after the duration and capacity steps, in the slot that the
\* first one left.
C21_Witness ==
  /\ project \in ScenarioD
  /\ pc = "done"
  /\ BothPlaced
  /\ StepsOf(shuffled[2]) = SubSeq(Ladder(0), 1, 3)
  /\ StepsOf(shuffled[1]) = <<>>
  /\ sess[1].slot # sess[2].slot

\* a declares b as conflicting, or b declares a.
Declares(a, b) == b \in Range(P(a).conflicts)
Conflicting(a, b) == Declares(a, b) \/ Declares(b, a)

\* The position in the log of the line that reports n as assigned (0: none).
AssignedAt(n) ==
  FirstIndex([i \in 1..Len(log) |-> log[i] = [msg |-> "assigned", number |-> n]])

\* b had its slot when the run gave a its slot.
InSlotBefore(b, a) ==
  \/ PreservedSlot(b)
  \/ (AssignedAt(b) # 0 /\ AssignedAt(a) # 0 /\ AssignedAt(b) < AssignedAt(a))

\* The constraints under which the search that placed n was made.
PlacedUnder(n) == AfterSteps(trace[n].home, StepsOf(n))

\* C22: a search made with session-conflict checking enforced rejects every
\* slot that holds another session which the session being placed declares
\* as conflicting or which declares it; and two sessions of the run with a
\* conflict declared in either direction are in the same slot only if
\* session-conflict checking was relaxed when the later one got its slot, or
\* both slots were preserved.
C22_SymmetricConflicts ==
  Running =>
    /\ (pc = "search" /\ "session" \in Range(constraints.meetConflicts)) =>
         \A k \in 1..Len(project.slots) :
           (\E b \in Range(sessions) :
              b # cur /\ sess[b].slot = project.slots[k].name /\ Conflicting(cur, b))
           => ~nonConflictingSlot(cur, k, constraints)
    /\ \A a \in Range(sessions) : \A b \in Range(sessions) :
         (a # b /\ Conflicting(a, b) /\ SlotSetByRun(a) /\ Placed(a)
            /\ sess[b].slot = sess[a].slot /\ InSlotBefore(b, a))
         => "session" \notin Range(PlacedUnder(a).meetConflicts)

\* C22 witness: a run ended where a session was placed in another slot than
\* a session that declares it and that it does not declare, with the
\* duration forgotten and the session conflicts still checked, and a third
\* one joined the slot of a session in conflict with it after the session
\* conflicts were forgotten for it.
C22_Witness ==
  /\ pc = "done"
  /\ \E a \in Range(sessions) : \E b \in Range(sessions) :
       /\ Declares(b, a) /\ ~Declares(a, b)
       /\ SlotSetByRun(a) /\ SlotSetByRun(b) /\ InSlotBefore(b, a)
       /\ sess[a].slot # sess[b].slot
       /\ StepsOf(a) = SubSeq(Ladder(0), 1, 2)
  /\ \E a \in Range(sessions) : \E b \in Range(sessions) :
       /\ Conflicting(a, b) /\ SlotSetByRun(a) /\ InSlotBefore(b, a)
       /\ sess[a].slot = sess[b].slot
       /\ Logged(a, "forget session conflicts")

\* Two sessions have a track label in common.
ShareTrack(a, b) == Range(SessionTracks(a)) \cap Range(SessionTracks(b)) # {}

\* C23: two sessions of the run that share a track label are in the same
\* slot only if track-conflict checking was relaxed when the later one got
\* its slot, or both slots were preserved.
C23_TrackExclusivity ==
  Running =>
    \A a \in Range(sessions) : \A b \in Range(sessions) :
      (a # b /\ ShareTrack(a, b) /\ SlotSetByRun(a) /\ Placed(a)
         /\ sess[b].slot = sess[a].slot /\ InSlotBefore(b, a))
      => "track" \notin Range(PlacedUnder(a).meetConflicts)

\* C23 witness: a run ended where two sessions that share a track label
\* were placed in different slots with track conflicts checked, and a third
\* one of the same track joined the slot of one of them after the track
\* conflicts were forgotten for it.
C23_Witness ==
  /\ pc = "done"
  /\ \E a \in Range(sessions) : \E b \in Range(sessions) : \E d \in Range(sessions) :
       /\ a # b /\ a # d /\ b # d
       /\ ShareTrack(a, b) /\ ShareTrack(a, d) /\ ShareTrack(b, d)
       /\ SlotSetByRun(a) /\ SlotSetByRun(b) /\ SlotSetByRun(d)
       /\ InSlotBefore(a, b) /\ InSlotBefore(b, d)
       /\ sess[a].slot # sess[b].slot
       /\ "track" \in Range(PlacedUnder(b).meetConflicts)
       /\ sess[d].slot \in {sess[a].slot, sess[b].slot}
       /\ PlacedUnder(d).meetConflicts = <<"session">>

\* The duration of the slot that n is in.
SlotDuration(n) == project.slots[SlotByName(sess[n].slot)].duration

\* C24: a session that the run gave its slot with no duration step logged
\* for it is in a slot of its preferred duration; with no 'forget duration
\* constraint' step logged for it, in a slot at least as long as its
\* preferred duration; a session that the run put in a shorter slot has had
\* the 'forget duration constraint' step, after the 'relax duration
\* comparison' step.
C24_DurationLevels ==
  Running =>
    \A n \in Range(sessions) :
      (SlotSetByRun(n) /\ Placed(n)) =>
        /\ ~Logged(n, "relax duration comparison")
             => SlotDuration(n) = P(n).duration
        /\ ~Logged(n, "forget duration constraint")
             => SlotDuration(n) >= P(n).duration
        /\ SlotDuration(n) < P(n).duration
             => /\ Logged(n, "forget duration constraint")
                /\ Logged(n, "relax duration comparison")
                /\ ~PlacedUnder(n).meetDuration

\* C24 witness: a run ended with a session placed at the first search in a
\* slot of its preferred duration, a session placed after the strict-to-loose
\* step alone in a longer slot, and a session placed in a shorter slot after
\* the duration was forgotten.
C24_Witness ==
  /\ pc = "done"
  /\ \E n \in Range(sessions) :
       /\ SlotSetByRun(n) /\ Placed(n) /\ StepsOf(n) = <<>>
       /\ SlotDuration(n) = P(n).duration
  /\ \E n \in Range(sessions) :
       /\ SlotSetByRun(n) /\ Placed(n) /\ StepsOf(n) = <<"relax duration comparison">>
       /\ SlotDuration(n) > P(n).duration
  /\ \E n \in Range(sessions) :
       /\ SlotSetByRun(n) /\ Placed(n) /\ Logged(n, "forget duration constraint")
       /\ SlotDuration(n) < P(n).duration

\* The comparison of two chairs by login when both have one, else by name.
SameIdentity(c1, c2) ==
  IF c1.login # "" /\ c2.login # ""
  THEN c1.login = c2.login
  ELSE c1.name # "" /\ c1.name = c2.name

\* A chair of a has the same identity as a chair of b.
SameIdentityChair(a, b) ==
  \E i \in 1..Len(P(a).chairs) : \E j \in 1..Len(P(b).chairs) :
    SameIdentity(P(a).chairs[i], P(b).chairs[j])

\* The constraints with everything relaxed: the chair check alone remains.
ChairCheckOnly ==
  [FreshConstraints(0) EXCEPT !.strictDuration = FALSE, !.meetDuration = FALSE,
                              !.meetCapacity = FALSE, !.meetConflicts = <<>>]

\* C25: for the session being placed, the chair check rejects a slot if and
\* only if the slot holds another session one of whose chairs has the same
\* identity as one of its chairs, by login when both chairs have a login and
\* by name otherwise.
C25_ChairIdentity ==
  pc = "search" =>
    \A k \in 1..Len(project.slots) :
      ~nonConflictingSlot(cur, k, ChairCheckOnly)
      <=> \E s \in Range(sessions) :
            /\ s # cur /\ sess[s].slot = project.slots[k].name
            /\ SameIdentityChair(s, cur)

\* The sessions of the run that carry the label of a track.
InTrack(track) == {n \in Range(sessions) : track \in Range(SessionTracks(n))}

\* The largest capacity preference among the sessions of a track.
MaxCapacity(track) ==
  CHOOSE c \in {sess[n].capacity : n \in InTrack(track)} :
    \A n \in InTrack(track) : sess[n].capacity <= c

\* The room meets the largest capacity preference of the track.
Meets(r, track) == project.rooms[r].capacity >= MaxCapacity(track)

\* The room can host the sessions of the track within the number of slots,
\* for the load that the selector counts in the room.
Hosts(r, track) ==
  slotsTaken(r, track) + Cardinality(InTrack(track)) <= Len(project.slots)

\* The alternatives of the chain, in order; the last one takes any room.
Alternative(a, r, track) ==
  CASE a = 1 -> Meets(r, track) /\ Hosts(r, track)
    [] a = 2 -> Meets(r, track)
    [] a = 3 -> Hosts(r, track)
    [] a = 4 -> TRUE

\* The first alternative that some room satisfies.
FirstAlternative(track) ==
  CHOOSE a \in 1..4 :
    /\ \E r \in 1..Len(project.rooms) : Alternative(a, r, track)
    /\ \A b \in 1..(a - 1) : \A r \in 1..Len(project.rooms) : ~Alternative(b, r, track)

\* Every room that a session of the track already has is a room of the
\* project.
RequestedRoomsExist(track) ==
  \A n \in InTrack(track) : sess[n].room # Undefined => RoomByName(sess[n].room) # 0

\* The step that visits a track with a name and chooses its home room.
ChoosesHome(track) ==
  /\ pc = "tracks" /\ ti < Len(tracks) /\ ti' = ti + 1
  /\ track = tracks[ti + 1] /\ track # ""
  /\ RequestedRoomsExist(track)

\* What the choice of a home room yields: a room that satisfies the first
\* alternative that some room satisfies, before which no room of the ranked
\* order satisfies it.
C26_ChainStep ==
  \A track \in Range(tracks) :
    ChoosesHome(track) =>
      LET ranked == AllRooms(track)
          a == FirstAlternative(track)
      IN \E i \in 1..Len(ranked) :
           /\ trackRoom' = ranked[i]
           /\ Alternative(a, ranked[i], track)
           /\ \A j \in 1..(i - 1) : ~Alternative(a, ranked[j], track)

\* C26: the home room chosen for a track with a name is the first room in
\* ranked order that meets the largest capacity preference of the track and
\* can host its sessions; if there is none, the first that meets the
\* capacity; if none, the first that can host the sessions; if none, the
\* first room in ranked order.
C26_FallbackChain == [][C26_ChainStep]_vars

\* A track was visited whose home room satisfies alternative a and no
\* earlier one, while another room satisfies a later alternative.
ChosenBy(a) ==
  \E n \in Range(sessions) :
    /\ trace[n].pulls = 1 /\ trace[n].track = "a" /\ trace[n].searches = 0
    /\ pc = "search" /\ cur = n /\ ti = 1
    /\ \A b \in 1..(a - 1) : \A r \in 1..Len(project.rooms) : ~Alternative(b, r, "a")
    /\ Alternative(a, trackRoom, "a")

\* C26 witness: the home room of a track was chosen for its capacity alone,
\* while the other room could host the sessions of the track and is too
\* small.
C26_Witness ==
  /\ ChosenBy(2)
  /\ \E r \in 1..Len(project.rooms) :
       r # trackRoom /\ Hosts(r, "a") /\ ~Meets(r, "a")

\* The sessions in a room that do not belong to a track.
OthersIn(r, track) == {n \in Range(roomSessions[r]) : n \notin InTrack(track)}

\* C27: when a track with a name is about to be visited, the load that the
\* selector counts in a room is the number of sessions in the room that do
\* not belong to the track.
C27_LoadMetric ==
  (pc = "tracks" /\ ti < Len(tracks) /\ tracks[ti + 1] # "") =>
    \A r \in 1..Len(project.rooms) :
      slotsTaken(r, tracks[ti + 1]) = Cardinality(OthersIn(r, tracks[ti + 1]))

\* A session of the track already has the room.
Requested(r, track) ==
  \E n \in InTrack(track) : sess[n].room = project.rooms[r].name

\* The ranked order holds every room once, the requested rooms before the
\* others, and the rooms of each group by ascending load, the load being the
\* one that the selector counts.
RankedOrder(ranked, track) ==
  /\ Len(ranked) = Len(project.rooms)
  /\ Range(ranked) = 1..Len(project.rooms)
  /\ \A i \in 1..Len(ranked) : \A j \in 1..Len(ranked) :
       i < j =>
         /\ Requested(ranked[j], track) => Requested(ranked[i], track)
         /\ (Requested(ranked[i], track) <=> Requested(ranked[j], track))
              => slotsTaken(ranked[i], track) <= slotsTaken(ranked[j], track)

\* What the choice of a home room yields, as to requested rooms.
C28_RankStep ==
  \A track \in Range(tracks) :
    ChoosesHome(track) =>
      /\ RankedOrder(AllRooms(track), track)
      /\ (\E r \in 1..Len(project.rooms) :
            Requested(r, track) /\ Alternative(FirstAlternative(track), r, track))
         => Requested(trackRoom', track)

\* C28: in the ranked order used to choose the home room of a track, every
\* room that a session of the track already has comes before every other
\* room, and each of the two groups is in ascending order of load; when a
\* requested room satisfies the first alternative of the chain that some
\* room satisfies, the home room is a requested room.
C28_RequestedFirst == [][C28_RankStep]_vars

\* C28 witness: the home room of a track is a room that one of its sessions
\* already had and that holds a session of no track as well, chosen over an
\* empty room that meets the capacity and can host the sessions of the track.
C28_Witness ==
  /\ ChosenBy(1)
  /\ Requested(trackRoom, "a")
  /\ Cardinality(OthersIn(trackRoom, "a")) = 1
  /\ \E r \in 1..Len(project.rooms) :
       /\ r # trackRoom /\ ~Requested(r, "a")
       /\ Alternative(1, r, "a")
       /\ roomSessions[r] = <<>>

\* No session of the room is in the slot.
FreeIn(r, k) ==
  ~\E m \in Range(roomSessions[r]) : sess[m].slot = project.slots[k].name

\* The slot can be given to the session being placed, in the room, under the
\* current constraints: it is the slot that the session has, or a slot free
\* in the room, and it passes the checks in force.
UsableSlot(r, k) ==
  /\ IF sess[cur].slot = Undefined THEN FreeIn(r, k)
     ELSE project.slots[k].name = sess[cur].slot
  /\ nonConflictingSlot(cur, k, constraints)

Usable(r) == \E k \in 1..Len(project.slots) : UsableSlot(r, k)

\* The room meets the capacity preference of the session being placed.
Adequate(r) == project.rooms[r].capacity >= sess[cur].capacity

\* Room h comes before room r by ascending capacity, then by position.
SmallerFirst(h, r) ==
  \/ project.rooms[h].capacity < project.rooms[r].capacity
  \/ (project.rooms[h].capacity = project.rooms[r].capacity /\ h <= r)

\* Room h comes before room r by descending capacity, then by position.
LargerFirst(h, r) ==
  \/ project.rooms[h].capacity > project.rooms[r].capacity
  \/ (project.rooms[h].capacity = project.rooms[r].capacity /\ h <= r)

AllRoomsOf == 1..Len(project.rooms)

\* A search is made for a session without room, with no home room in effect.
FreeSearch ==
  /\ pc = "search" /\ pc' # "threw"
  /\ constraints.trackRoom = 0
  /\ sess[cur].room = Undefined

\* What a search among all rooms yields.
C29_RoomStep ==
  FreeSearch =>
    IF sess'[cur].room # Undefined
    THEN LET h == RoomByName(sess'[cur].room)
         IN /\ Usable(h)
            /\ Adequate(h) =>
                 \A r \in AllRoomsOf : (Adequate(r) /\ Usable(r)) => SmallerFirst(h, r)
            /\ ~Adequate(h) =>
                 /\ ~constraints.meetCapacity
                 /\ \A r \in AllRoomsOf : Adequate(r) => ~Usable(r)
                 /\ \A r \in AllRoomsOf : (~Adequate(r) /\ Usable(r)) => LargerFirst(h, r)
    ELSE \A r \in AllRoomsOf :
           (Adequate(r) \/ ~constraints.meetCapacity) => ~Usable(r)

\* C29: a session without room, searched with no home room in effect, is
\* placed in the smallest room that meets its capacity preference and has a
\* usable slot, the first by position among equal ones; it is placed in a
\* room below its capacity preference only when capacity checking was
\* dropped and no adequate room has a usable slot, and then in the largest
\* such room that has a usable slot; it is not placed only when no candidate
\* room has a usable slot.
C29_CandidateRoomOrder == [][C29_RoomStep]_vars

\* The session n was placed by a search among all rooms.
PlacedFreely(n) ==
  /\ RoomSetByRun(n) /\ Placed(n)
  /\ PlacedUnder(n).trackRoom = 0

\* C29 witness: a run ended where a session was placed in the smaller of two
\* adequate rooms while the larger one was empty, and a session with a
\* capacity preference above every room was placed in the largest room after
\* capacity checking was dropped.
C29_Witness ==
  /\ pc = "done"
  /\ \E n \in Range(sessions) :
       /\ PlacedFreely(n) /\ StepsOf(n) = <<>>
       /\ sess[n].room = "R1"
       /\ Len(project.rooms) = 2
       /\ project.rooms[2].capacity > project.rooms[1].capacity
       /\ project.rooms[1].capacity >= sess[n].capacity
  /\ \E n \in Range(sessions) :
       /\ PlacedFreely(n) /\ Logged(n, "forget capacity constraint")
       /\ \A r \in AllRoomsOf : project.rooms[r].capacity < sess[n].capacity
       /\ sess[n].room = "R2"

\* The number of sessions of the run that are in a slot.
SessionsIn(k) ==
  Cardinality({n \in Range(sessions) : sess[n].slot = project.slots[k].name})

\* Slot k comes before slot j by ascending number of sessions, then by
\* position.
LessBusyFirst(k, j) ==
  \/ SessionsIn(k) < SessionsIn(j)
  \/ (SessionsIn(k) = SessionsIn(j) /\ k <= j)

\* A search is made for a session without slot, with no home room in effect,
\* and gives it a slot.
FreeSlotChoice ==
  /\ pc = "search" /\ pc' # "threw"
  /\ constraints.trackRoom = 0
  /\ sess[cur].slot = Undefined
  /\ sess'[cur].slot # Undefined

\* What such a search yields as to the slot.
C30_SlotStep ==
  FreeSlotChoice =>
    LET h == RoomByName(sess'[cur].room)
        k == SlotByName(sess'[cur].slot)
    IN /\ h # 0 /\ k # 0
       /\ UsableSlot(h, k)
       /\ \A j \in 1..Len(project.slots) : UsableSlot(h, j) => LessBusyFirst(k, j)

\* C30: the slot given to a session without slot, with no home room in
\* effect, is free in the room it is placed in and passes the checks in
\* force, and among such slots it holds the fewest sessions, and is the first
\* by position among those that hold as few.
C30_SlotLoadBalancing == [][C30_SlotStep]_vars

\* C30 witness: a run on scenario A ended where the session of capacity 40,
\* processed second, got the second slot in the empty room of capacity 50,
\* the first slot holding the session processed first, which had got it as
\* the first of two empty slots.
C30_Witness ==
  /\ project = ScenarioA
  /\ pc = "done"
  /\ shuffled[2] = 3
  /\ sess[3].room = "R2" /\ sess[3].slot = "S2"
  /\ sess[shuffled[1]].room = "R1" /\ sess[shuffled[1]].slot = "S1"
  /\ roomSessions[2] = <<3>>

\* A search is made, with a home room in effect, for a session that has no
\* room and no slot.
HomeSearch ==
  /\ pc = "search" /\ pc' # "threw"
  /\ constraints.trackRoom # 0
  /\ sess[cur].room = Undefined /\ sess[cur].slot = Undefined

\* What a search in the home room yields.
C31_HomeStep ==
  HomeSearch =>
    IF sess'[cur].room # Undefined \/ sess'[cur].slot # Undefined
    THEN LET k == SlotByName(sess'[cur].slot)
         IN /\ sess'[cur].room = project.rooms[constraints.trackRoom].name
            /\ k # 0
            /\ UsableSlot(constraints.trackRoom, k)
            /\ \A j \in 1..(k - 1) : ~UsableSlot(constraints.trackRoom, j)
    ELSE \A j \in 1..Len(project.slots) : ~UsableSlot(constraints.trackRoom, j)

\* C31: a search made with a home room in effect for a session without room
\* and slot places the session in the home room, in the first slot by
\* position that is free in the home room and passes the checks in force,
\* however many sessions the slots hold; it places the session nowhere when
\* the home room has no such slot.
C31_BackToBack == [][C31_HomeStep]_vars

\* C31 witness: a session was placed at its first search in the first slot
\* of its home room, a slot that held a session of another room, while the
\* second slot, of the same duration, was empty.
C31_Witness ==
  \E n \in Range(sessions) :
    /\ InHome(n) /\ StepsOf(n) = <<>> /\ SlotSetByRun(n)
    /\ sess[n].slot = project.slots[1].name
    /\ \E m \in Range(sessions) :
         /\ m # n /\ PreservedSlot(m) /\ sess[m].slot = sess[n].slot
         /\ sess[m].room # sess[n].room
    /\ Len(project.slots) >= 2
    /\ project.slots[2].duration = P(n).duration
    /\ SessionsIn(2) = 0

\* The strictest level, with a given home room in effect.
Strictest(home) ==
  [trackRoom |-> home, strictDuration |-> TRUE, meetDuration |-> TRUE,
   meetCapacity |-> TRUE, meetConflicts |-> <<"session", "track">>]

\* What a step that pulls a session does to the constraints.
C32_PullStep ==
  (cur' # cur /\ cur' # 0) =>
    /\ pc' = "search"
    /\ trace'[cur'].searches = 0
    /\ constraints' = Strictest(trackRoom')
    /\ tracks[ti'] = "" => trackRoom' = 0
    /\ ti' = ti => trackRoom' = trackRoom

\* C32: a step that pulls a session leaves it, not yet searched, with the
\* constraints at the strictest level and the home room of the track being
\* visited in effect (none for the main track), whatever the constraints of
\* the session processed before had become.
C32_FreshContext == [][C32_PullStep]_vars

\* C32 witness: a session went down the ladder to its last step, and the
\* session pulled after it, during the visit of the same track, was placed
\* at its first search.
C32_Witness ==
  \E i \in 1..Len(log) : \E j \in 1..Len(log) :
    /\ i < j
    /\ log[i].msg = "forget all conflicts"
    /\ log[j].msg = "assigned" /\ log[j].number # log[i].number
    /\ StepsOf(log[j].number) = <<>>
    /\ SlotSetByRun(log[j].number)
    /\ trace[log[j].number].searches = 1
    /\ trace[log[j].number].track = trace[log[i].number].track

\* C33: from the end of the retrieval on, hence before any home room is
\* chosen and before any search, every session of the run has a capacity
\* preference other than 0: the default where the session stated 0, and the
\* stated preference otherwise; so has the largest preference of every track.
C33_CapacityNormalized ==
  /\ \A n \in Range(sessions) :
       /\ sess[n].capacity # 0
       /\ sess[n].capacity = IF P(n).capacity = 0 THEN 30 ELSE P(n).capacity
  /\ pc \in {"tracks", "search"} =>
       \A i \in 1..Len(tracks) :
         TrackSessions(tracks[i]) # <<>> => LargestCapacity(tracks[i]) # 0

\* C33 witness: a session of unknown capacity preference was placed at its
\* first search, in a room of 30 seats or more, while a smaller room had the
\* same slot free.
C33_Witness ==
  /\ pc = "done"
  /\ \E n \in Range(sessions) :
       /\ P(n).capacity = 0
       /\ sess[n].capacity = 30
       /\ RoomSetByRun(n) /\ SlotSetByRun(n)
       /\ StepsOf(n) = <<>>
       /\ RoomCapacity(sess[n].room) >= 30
       /\ \E r \in 1..Len(project.rooms) :
            /\ project.rooms[r].capacity < 30
            /\ \A m \in Range(sessions) :
                 ~(sess[m].room = project.rooms[r].name /\ sess[m].slot = sess[n].slot)

\* The views exist once the settings are applied: the set of tracks, which
\* always holds the main track, is built just before them.
ViewsReady == tracks # <<>>

\* C34: once the views are initialised, in every state, the list of each room
\* holds each session of the run whose room field is that room, once, and
\* nothing else, and the list of each slot holds each session of the run
\* whose slot field is that slot, once, and nothing else.
C34_ViewsConsistent ==
  ViewsReady =>
    /\ \A r \in 1..Len(project.rooms) :
         /\ Range(roomSessions[r]) =
              {n \in Range(sessions) : sess[n].room = project.rooms[r].name}
         /\ Len(roomSessions[r]) = Cardinality(Range(roomSessions[r]))
    /\ \A k \in 1..Len(project.slots) :
         /\ Range(slotSessions[k]) =
              {n \in Range(sessions) : sess[n].slot = project.slots[k].name}
         /\ Len(slotSessions[k]) = Cardinality(Range(slotSessions[k]))

\* C34 witness: at the end of a run, a session that entered with a room only
\* was given its slot, and a session that entered with a slot only was given
\* its room.
C34_Witness ==
  /\ pc = "done"
  /\ \E n \in Range(sessions) : \E m \in Range(sessions) :
       /\ PreservedRoom(n) /\ ~PreservedSlot(n) /\ SlotSetByRun(n)
       /\ PreservedSlot(m) /\ ~PreservedRoom(m) /\ RoomSetByRun(m)

\* Exchange of the elements at the 0-based positions i and j.
Exchange(array, i, j) ==
  [array EXCEPT ![i + 1] = array[j + 1], ![j + 1] = array[i + 1]]

\* The exchanges of position i, from the last down to the second, with the
\* position js[i].
RECURSIVE ExchangesFrom(_, _, _)
ExchangesFrom(array, js, i) ==
  IF i > 0 THEN ExchangesFrom(Exchange(array, i, js[i]), js, i - 1) ELSE array

\* The choices of one index j, 0 <= j <= i, for each position i of a list of
\* the given length.
IndexChoices(len) ==
  {js \in [1..(len - 1) -> 0..(len - 1)] : \A i \in 1..(len - 1) : js[i] <= i}

\* The list was shuffled: the state is past the call of line 97.
Shuffled == pc = "retrieved" \/ Running

\* C35: the shuffled list holds the sessions given to shuffle, each once, and
\* is the given list after exchanging each position i, from the last to the
\* second, with a position j, 0 <= j <= i; and the outputs of the generator
\* being those of the stream of the given seed, the order is the one these
\* outputs give.
C35_ShufflePermutes ==
  Shuffled =>
    /\ Len(shuffled) = Len(ValidSessions)
    /\ Range(shuffled) = Range(ValidSessions)
    /\ Cardinality(Range(shuffled)) = Len(shuffled)
    /\ \E js \in IndexChoices(Len(ValidSessions)) :
         shuffled = ExchangesFrom(ValidSessions, js, Len(ValidSessions) - 1)
    /\ args.seed # NoSeed =>
         LET js == [i \in 1..(Len(ValidSessions) - 1) |->
                      (Quick(args.seed, Len(ValidSessions) - i) * (i + 1)) \div Grain]
         IN shuffled = ExchangesFrom(ValidSessions, js, Len(ValidSessions) - 1)

\* C35 witness: three sessions were shuffled and none kept its position.
C35_Witness ==
  /\ pc = "retrieved"
  /\ Len(shuffled) = 3
  /\ \A i \in 1..3 : shuffled[i] # ValidSessions[i]

\* Both the room and the slot of n were assigned before the run and kept.
PreservedBoth(n) == PreservedRoom(n) /\ PreservedSlot(n)

\* No two sessions enter the run in the same room and the same slot.
StartsClean ==
  \A a \in Range(sessions) : \A b \in Range(sessions) :
    (a # b /\ PreservedBoth(a) /\ PreservedBoth(b)) =>
      ~(P(a).room = P(b).room /\ P(a).slot = P(b).slot)

\* C36: at the end of a run that no two sessions entered in the same room
\* and slot, no two distinct sessions are in the same room and the same slot.
C36_NoDoubleBooking ==
  (pc = "done" /\ StartsClean) =>
    \A a \in Range(sessions) : \A b \in Range(sessions) :
      (a # b /\ Placed(a) /\ Placed(b)) =>
        ~(sess[a].room = sess[b].room /\ sess[a].slot = sess[b].slot)

\* The checks that a search made under the constraints c enforces.
Enforced(c) ==
  (IF c.strictDuration THEN {"strict duration"} ELSE {})
    \cup (IF c.trackRoom # 0 THEN {"home room"} ELSE {})
    \cup (IF c.meetDuration THEN {"duration"} ELSE {})
    \cup (IF c.meetCapacity THEN {"capacity"} ELSE {})
    \cup Range(c.meetConflicts)

\* A step from one search of a session to the next search of the same session.
C37_RelaxStep ==
  (pc = "search" /\ pc' = "search" /\ cur' = cur) =>
    Enforced(constraints') \subseteq Enforced(constraints)

\* C37: from one search of a session to the next, the set of enforced checks
\* never grows; in particular session-conflict checking, once dropped for a
\* session, is not enforced in a later search for that session.
C37_RelaxationMonotone == [][C37_RelaxStep]_vars

\* The rooms, the slots and the views are the same after the step.
NothingPlaced ==
  /\ \A n \in Numbers : sess'[n].room = sess[n].room /\ sess'[n].slot = sess[n].slot
  /\ roomSessions' = roomSessions
  /\ slotSessions' = slotSessions

\* n entered the run with neither a room nor a slot.
EnteredFree(n) == ~PreservedRoom(n) /\ ~PreservedSlot(n)

\* One call of setRoomAndSlot that returns, and what the state is after it.
C38_SearchStep ==
  /\ (pc = "search" /\ pc' # "threw") =>
       /\ IF setRoomAndSlot(cur, constraints).ok
          THEN sess'[cur].room # Undefined /\ sess'[cur].slot # Undefined
          ELSE NothingPlaced
       /\ NothingPlaced
            \/ /\ sess'[cur].room # Undefined /\ sess'[cur].slot # Undefined
               /\ \A n \in Numbers \ {cur} :
                    sess'[n].room = sess[n].room /\ sess'[n].slot = sess[n].slot
  /\ pc' \in {"tracks", "search", "apply", "done"} =>
       \A n \in Range(sessions') :
         (n \notin Range(preserve') \/ (P(n).room = Undefined /\ P(n).slot = Undefined))
           => (sess'[n].room = Undefined <=> sess'[n].slot = Undefined)

\* C38: a call of setRoomAndSlot that returns false leaves the room and the
\* slot of every session and the list of every room and slot as they were; a
\* call that returns true leaves the session with a room and a slot; and from
\* normalization on, a session that entered the run with neither has both or
\* none.
C38_AtomicPlacement == [][C38_SearchStep]_vars

\* C38 witness: a run ended where a session that entered with neither room
\* nor slot was placed after two failed searches or more, and another one
\* ended with neither after the last search failed.
C38_Witness ==
  /\ pc = "done"
  /\ \E n \in Range(sessions) : \E m \in Range(sessions) :
       /\ EnteredFree(n) /\ Placed(n) /\ Len(StepsOf(n)) >= 2
       /\ EnteredFree(m) /\ Logged(m, GiveUpLine)
       /\ sess[m].room = Undefined /\ sess[m].slot = Undefined

\* C39: at the end of a run, the 'could not find a room and slot' warning was
\* logged for a session if and only if the session is without a room or
\* without a slot; so it was logged for no session with an 'assigned' line.
C39_WarningMatchesOutcome ==
  pc = "done" =>
    \A n \in Range(sessions) :
      /\ Logged(n, GiveUpLine) <=> ~Placed(n)
      /\ ~(Logged(n, GiveUpLine) /\ Logged(n, "assigned"))

\* The searches made for n are within the length of its ladder: one per
\* relaxation step, and the first.
WithinLadder(n) ==
  trace[n].searches <= (IF trace[n].home # 0 THEN 8 ELSE 7)

\* The assignment pass has begun: the tracks are known and the first one is
\* about to be visited.
PassStarted == pc = "tracks" /\ ti = 0

\* Every session of the run was pulled once, and flagged as processed.
AllProcessed ==
  \A n \in Range(sessions) : sess[n].processed /\ trace[n].pulls = 1

\* The assignment pass came to its end with every session processed.
PassComplete == AllVisited /\ AllProcessed

\* What holds of the searches in every state.
C40_Bounded ==
  /\ \A n \in Numbers : WithinLadder(n) /\ trace[n].pulls <= 1
  /\ \A n \in Range(sessions) :
       Logged(n, GiveUpLine)
         => trace[n].searches = (IF trace[n].home # 0 THEN 8 ELSE 7)

\* C40: no session is searched more than 8 times (7 when no home room
\* applies), the give-up branch being taken after the last of them; and
\* every assignment pass that begins comes to its end, every track visited
\* and every session processed.
C40_Termination == []C40_Bounded /\ (PassStarted ~> PassComplete)

====
